---------------------------- MODULE Spec2Model ----------------------------
(***************************************************************************)
(* Model of the self-correcting voice agent core:                          *)
(*   src/src/agent/debt_collection_agent.py   (script objects, save)       *)
(*   src/src/correction/script_improver.py    (improve_script)             *)
(*   src/src/metrics/performance_evaluator.py (metrics, feedback)          *)
(*                                                                         *)
(* Python objects live in a heap: a DebtCollectionScript object points to  *)
(* its sections dict, the dict maps ids to ScriptSection objects, and a    *)
(* ScriptSection points to its next_sections list.  Addresses are indices  *)
(* into the four heap sequences, so aliasing between script versions is    *)
(* observable.  Text is a sequence of tokens; every token stands for a     *)
(* literal fragment of the source text ("NL" is a newline, "IND" the       *)
(* twelve blanks that indent the default script's lines).                  *)
(***************************************************************************)
EXTENDS Integers, Sequences, FiniteSets, TLC

VARIABLES
    scripts,      \* heap of DebtCollectionScript objects
    dicts,        \* heap of sections dicts (insertion-ordered <<key, addr>>)
    secs,         \* heap of ScriptSection objects
    lists,        \* heap of next_sections lists
    store,        \* config/ directory: file key -> persisted document
    roots,        \* scripts held by the caller (base script and results)
    snap,         \* value of each held script when the caller received it
    last,         \* record of the most recent improve_script call
    calls,        \* number of improve_script calls made so far
    fbIn,         \* inputs of the last feedback synthesis
    fbOut,        \* directive returned by the last feedback synthesis
    batch,        \* conversations collected for evaluation
    evalOut,      \* result of the last evaluate_conversations call
    session,      \* state of the improvement loop (command line or dashboard)
    sim           \* the simulate_conversation call in progress

scriptVars == <<scripts, dicts, secs, lists, store, roots, snap, last, calls>>
fbVars == <<fbIn, fbOut>>
evalVars == <<batch, evalOut>>
loopVars == <<session>>
simVars == <<sim>>
vars == <<scriptVars, fbVars, evalVars, loopVars, simVars>>

----------------------------------------------------------------------------
(* Bounds *)

MaxCalls == 2
\* evaluation cycles of one improvement loop (MAX_ITERATIONS, or clicks on
\* "Run Test Iteration")
MaxCycles == 2
MetricDen == 10      \* metric values are k/MetricDen

----------------------------------------------------------------------------
(* Generic helpers *)

Range(s) == {s[i] : i \in DOMAIN s}

Contains(text, pat) ==
    \E i \in 1..(Len(text) - Len(pat) + 1) :
        SubSeq(text, i, i + Len(pat) - 1) = pat

\* pat occurs in text at position i
MatchAtPos(text, i, pat) ==
    /\ i + Len(pat) - 1 <= Len(text)
    /\ \A k \in DOMAIN pat : text[i + k - 1] = pat[k]

\* str.replace(pat, rep): every non-overlapping occurrence, left to right
RECURSIVE ReplaceFrom(_, _, _, _)
ReplaceFrom(text, i, pat, rep) ==
    LET found == {j \in i..Len(text) : MatchAtPos(text, j, pat)}
    IN IF found = {} THEN SubSeq(text, i, Len(text))
       ELSE LET j == CHOOSE m \in found : \A n \in found : m <= n
            IN SubSeq(text, i, j - 1) \o rep
                   \o ReplaceFrom(text, j + Len(pat), pat, rep)

Replace(text, pat, rep) ==
    IF Len(pat) = 0 THEN text ELSE ReplaceFrom(text, 1, pat, rep)

\* substring test for a probe that lies inside one token
HasSub(text, toks) == \E i \in DOMAIN text : text[i] \in toks

----------------------------------------------------------------------------
(* Version strings: sequences of characters *)

DigitChars == <<"0", "1", "2", "3", "4", "5", "6", "7", "8", "9">>

IsDigit(c) == \E i \in 1..10 : DigitChars[i] = c
DigitVal(c) == (CHOOSE i \in 1..10 : DigitChars[i] = c) - 1

RECURSIVE DigitsVal(_)
DigitsVal(s) ==
    IF s = <<>> THEN 0
    ELSE DigitsVal(SubSeq(s, 1, Len(s) - 1)) * 10 + DigitVal(s[Len(s)])

RECURSIVE DigitsOf(_)
DigitsOf(n) ==
    IF n < 10 THEN <<DigitChars[n + 1]>>
    ELSE DigitsOf(n \div 10) \o <<DigitChars[(n % 10) + 1]>>

AllDigits(s) == s # <<>> /\ \A i \in DOMAIN s : IsDigit(s[i])

\* float(version) of a plain decimal with at most one fractional digit;
\* the value is returned in tenths, -1 stands for ValueError
ParseFloat(s) ==
    IF AllDigits(s) THEN DigitsVal(s) * 10
    ELSE IF Len(s) >= 3 /\ s[Len(s) - 1] = "." /\ IsDigit(s[Len(s)])
            /\ AllDigits(SubSeq(s, 1, Len(s) - 2))
         THEN DigitsVal(SubSeq(s, 1, Len(s) - 2)) * 10 + DigitVal(s[Len(s)])
         ELSE -1

\* f"{x:.1f}" of a value given in tenths
Format1f(t) == DigitsOf(t \div 10) \o <<".">> \o DigitsOf(t % 10)

\* f"{current_version + 0.1:.1f}"
BumpTwice(t) == Format1f(t + 2)
BumpVersion(t) == Format1f(t + 1)

V(a, b) == <<DigitChars[a + 1], ".", DigitChars[b + 1]>>

----------------------------------------------------------------------------
(* Text of the default script (debt_collection_agent.py, lines 108-249) *)

NL == "NL"
IND == "IND"
SP == "SP"

ScriptText ==
    [ hello |->
          "Hello, my name is [Agent Name] calling from [Company Name].",
      speaking |->
          "Am I speaking with [Customer Name]?",
      regarding |->
          "I'm calling regarding your loan account ending in [Last 4 Digits], which is currently past due.",
      recorded |->
          "Before we continue, I need to inform you that this call may be recorded for quality assurance purposes.",
      thanks |->
          "Thank you for explaining your situation. We have several options to help you get back on track.",
      amount |->
          "The full outstanding amount is $[Amount]. ",
      today |->
          "Would you be able to make a payment today?",
      ifcan |->
          "[If customer can make a payment]",
      howmuch |->
          "That's great. How much would you be able to pay today?",
      ifcannot |->
          "[If customer cannot make a payment]",
      discuss |->
          "I understand. Let's discuss a payment plan that might work better for your current situation.",
      suggest |->
          "Based on what you've shared, I'd like to suggest a payment plan:",
      opt1 |->
          "Option 1: [Payment plan details]",
      opt2 |->
          "Option 2: [Alternative payment plan details]",
      which |->
          "Which option would work better for you?",
      adjust |->
          "[Discuss and adjust based on customer feedback]",
      once |->
          "Once we have agreed on a plan, I'll send a confirmation email with all the details.",
      confirm |->
          "Let me confirm what we've agreed to today:",
      summarize |->
          "[Summarize the agreement]",
      receive |->
          "You'll receive a confirmation email within 24 hours with these details.",
      anything |->
          "Is there anything else I can help you with today?",
      verification |->
          "For security purposes, could you please confirm your date of birth ... Thank you for verifying your information.",
      situation |->
          "I see that your account is [X] months past due ... [Listen carefully to the customer's explanation]",
      hardship |->
          "I understand you're going through a difficult time. We have special hardship programs ... Would any of these options help your current situation?",
      escalation |->
          "I understand our standard options may not work for your situation. ... at a more convenient time?",
      closing |->
          "Thank you for your time today, [Customer Name]. ... Have a good day." ]
ImprovedText ==
    [ hello2 |->
          "Hello, my name is [Agent Name], and I'm calling from [Company Name], a debt collection agency.",
      purpose |->
          " The purpose of this call is to discuss options for bringing your account current.",
      recorded2 |->
          "Before we continue, I am required to inform you that this call is being recorded for quality assurance and compliance purposes.",
      ifso |->
          " If so, how much could you manage?",
      outline |->
          "Let me outline your options clearly so we can find the best solution for your situation.",
      opts3 |->
          "Option 1: A structured payment plan ... Option 2: ... Option 3: A one-time settlement amount ...",
      whichever |->
          "Whichever option you choose, our goal is to help you successfully resolve this debt ...",
      toconfirm |->
          "To confirm, you've agreed to: ... Can you confirm that this plan works for you?",
      onceconfirm |->
          "Once you confirm, I'll mark this agreement in our system ... Do I have your permission to proceed with this plan?" ]

SectionText ==
    [ altpay |->
          "Let me share some additional payment options that might work better for your situation: ... Which of these might work better for you?",
      objection |->
          "I understand your concerns about [specific objection]. ... Does that help clarify the situation?" ]

\* tokens of modelled input text (directive and response payloads)
InputText ==
    [ custom1 |->
          "Custom content A with payment options",
      custom2 |->
          "Custom content B",
      note |->
          "free-text improvement" ]

\* tokens whose lower-cased text contains the probe
Has ==
    [ payment |->
          {ScriptText.today, ScriptText.ifcan, ScriptText.ifcannot, ScriptText.discuss, ScriptText.suggest, ScriptText.opt1,
                          ScriptText.opt2, ImprovedText.opts3, ImprovedText.toconfirm, ScriptText.situation, ScriptText.hardship,
                          SectionText.altpay, InputText.custom1},
      options |->
          {ScriptText.thanks, ImprovedText.outline, ImprovedText.purpose, ScriptText.hardship, ScriptText.escalation,
                          SectionText.altpay, InputText.custom1},
      Option1 |->
          {ScriptText.opt1, ImprovedText.opts3},
      Option2 |->
          {ScriptText.opt2, ImprovedText.opts3},
      AgentName |->
          {ScriptText.hello, ImprovedText.hello2},
      CompanyName |->
          {ScriptText.hello, ImprovedText.hello2},
      recorded |->
          {ScriptText.recorded, ImprovedText.recorded2},
      regarding_loan |->
          {ScriptText.regarding} ]

\* a block of lines as written in the triple-quoted literals: a newline,
\* every line indented, the closing quotes indented as well
RECURSIVE Block(_)
Block(lines) ==
    IF lines = <<>> THEN <<NL, IND>>
    ELSE <<NL, IND>> \o lines[1] \o Block(Tail(lines))

D_added == <<"Added based on performance feedback">>

DefaultSections == <<
    [section_id |-> "introduction", name |-> "Introduction",
     description |-> <<"Begin the call by identifying yourself and the company">>,
     content |-> Block(<< <<ScriptText.hello, SP>>, <<ScriptText.speaking, SP>>, <<>>,
                          <<ScriptText.regarding, SP>>, <<>>, <<ScriptText.recorded>> >>),
     next_sections |-> <<"verification">>],
    [section_id |-> "verification", name |-> "Identity Verification",
     description |-> <<"Verify the customer's identity for security and compliance">>,
     content |-> Block(<< <<ScriptText.verification>> >>),
     next_sections |-> <<"situation_assessment">>],
    [section_id |-> "situation_assessment", name |-> "Situation Assessment",
     description |-> <<"Understand why the customer has fallen behind on payments">>,
     content |-> Block(<< <<ScriptText.situation>> >>),
     next_sections |-> <<"payment_discussion", "hardship_options">>],
    [section_id |-> "payment_discussion", name |-> "Payment Discussion",
     description |-> <<"Discuss payment options and negotiate a repayment plan">>,
     content |-> Block(<< <<ScriptText.thanks>>, <<>>, <<ScriptText.amount, ScriptText.today>>, <<>>,
                          <<ScriptText.ifcan>>, <<ScriptText.howmuch>>, <<>>,
                          <<ScriptText.ifcannot>>, <<ScriptText.discuss>> >>),
     next_sections |-> <<"payment_plan", "hardship_options">>],
    [section_id |-> "payment_plan", name |-> "Payment Plan Setup",
     description |-> <<"Establish a formal payment plan based on customer's ability to pay">>,
     content |-> Block(<< <<ScriptText.suggest>>, <<>>, <<ScriptText.opt1>>, <<ScriptText.opt2>>, <<>>,
                          <<ScriptText.which>>, <<>>, <<ScriptText.adjust>>, <<>>, <<ScriptText.once>> >>),
     next_sections |-> <<"confirmation">>],
    [section_id |-> "hardship_options", name |-> "Hardship Options",
     description |-> <<"Present options for customers experiencing significant financial hardship">>,
     content |-> Block(<< <<ScriptText.hardship>> >>),
     next_sections |-> <<"payment_plan", "escalation">>],
    [section_id |-> "escalation", name |-> "Escalation Process",
     description |-> <<"Process for when standard options don't meet customer needs">>,
     content |-> Block(<< <<ScriptText.escalation>> >>),
     next_sections |-> <<"confirmation">>],
    [section_id |-> "confirmation", name |-> "Confirmation and Next Steps",
     description |-> <<"Confirm the agreement and explain next steps">>,
     content |-> Block(<< <<ScriptText.confirm>>, <<>>, <<ScriptText.summarize>>, <<>>,
                          <<ScriptText.receive>>, <<>>, <<ScriptText.anything>> >>),
     next_sections |-> <<"closing">>],
    [section_id |-> "closing", name |-> "Closing",
     description |-> <<"End the call professionally">>,
     content |-> Block(<< <<ScriptText.closing>> >>),
     next_sections |-> <<>>] >>

----------------------------------------------------------------------------
(* The heap.  A world w carries the four heaps, the store, the effects of  *)
(* the call in progress (gen, saves), the pending exception and the value  *)
(* returned by the last operator.                                          *)

NoExc == "none"

EmptyWorld ==
    [scripts |-> <<>>, dicts |-> <<>>, secs |-> <<>>, lists |-> <<>>,
     store |-> <<>>, gen |-> 0, saves |-> <<>>, exc |-> NoExc, ret |-> 0,
     path |-> "none"]

\* dict helpers: a dict is a sequence of <<key, value>> in insertion order
DictHas(d, k) == \E i \in DOMAIN d : d[i][1] = k
DictGet(d, k) == d[CHOOSE i \in DOMAIN d : d[i][1] = k][2]
DictSet(d, k, v) ==
    IF DictHas(d, k)
    THEN [i \in DOMAIN d |-> IF d[i][1] = k THEN <<k, v>> ELSE d[i]]
    ELSE Append(d, <<k, v>>)

SectionsOf(w, a) == w.dicts[w.scripts[a].sections]
SecAddr(w, a, id) == DictGet(SectionsOf(w, a), id)
HasSection(w, a, id) == DictHas(SectionsOf(w, a), id)

\* a constructor call that passes the name where the id belongs
ScriptSectionIdFromName(w, sid, nm, desc, cont, nxt) ==
    [w EXCEPT !.lists = Append(@, nxt),
              !.secs = Append(@, [section_id |-> nm, name |-> nm,
                                  description |-> desc, content |-> cont,
                                  next_sections |-> Len(w.lists) + 1]),
              !.ret = Len(w.secs) + 1]
\* ScriptSection(...) : a new section object with its own next_sections list
ScriptSection(w, sid, nm, desc, cont, nxt) ==
    [w EXCEPT !.lists = Append(@, nxt),
              !.secs = Append(@, [section_id |-> sid, name |-> nm,
                                  description |-> desc, content |-> cont,
                                  next_sections |-> Len(w.lists) + 1]),
              !.ret = Len(w.secs) + 1]

\* DebtCollectionScript(script_id, version, description, sections): the
\* sections argument is a dict, given as <<key, section value>> pairs
DebtCollectionScript(w, sid, ver, desc, sectionItems) ==
    LET n == Len(sectionItems)
        l0 == Len(w.lists)
        s0 == Len(w.secs)
    IN [w EXCEPT
          !.lists = @ \o [i \in 1..n |-> sectionItems[i][2].next_sections],
          !.secs = @ \o [i \in 1..n |->
                           [sectionItems[i][2] EXCEPT !.next_sections = l0 + i]],
          !.dicts = Append(@, [i \in 1..n |-> <<sectionItems[i][1], s0 + i>>]),
          !.scripts = Append(@, [script_id |-> sid, version |-> ver,
                                 description |-> desc,
                                 sections |-> Len(w.dicts) + 1]),
          !.ret = Len(w.scripts) + 1]

_create_default_script(w) ==
    DebtCollectionScript(w, "base_debt_collection_script", V(1, 0),
                         <<"This script provides a framework for debt collection calls. ...">>,
                         [i \in DOMAIN DefaultSections |->
                            <<DefaultSections[i].section_id, DefaultSections[i]>>])

\* the value of a script: what model_dump() sees
SectionValue(w, sa) ==
    [w.secs[sa] EXCEPT !.next_sections = w.lists[w.secs[sa].next_sections]]

ScriptValue(w, a) ==
    LET d == SectionsOf(w, a)
    IN [script_id |-> w.scripts[a].script_id,
        version |-> w.scripts[a].version,
        description |-> w.scripts[a].description,
        sections |-> [i \in DOMAIN d |-> <<d[i][1], SectionValue(w, d[i][2])>>]]

\* objects reachable from a script
SecAddrsOf(w, a) == {SectionsOf(w, a)[i][2] : i \in DOMAIN SectionsOf(w, a)}
ListAddrsOf(w, a) == {w.secs[sa].next_sections : sa \in SecAddrsOf(w, a)}

\* copy.copy(script): a new script object over the same dict
ShallowCopy(w, a) ==
    [w EXCEPT !.scripts = Append(@, w.scripts[a]), !.ret = Len(w.scripts) + 1]

\* copy.deepcopy(script)
deepcopy(w, a) ==
    LET d == SectionsOf(w, a)
        n == Len(d)
        l0 == Len(w.lists)
        s0 == Len(w.secs)
    IN [w EXCEPT
          !.lists = @ \o [i \in 1..n |-> w.lists[w.secs[d[i][2]].next_sections]],
          !.secs = @ \o [i \in 1..n |->
                           [w.secs[d[i][2]] EXCEPT !.next_sections = l0 + i]],
          !.dicts = Append(@, [i \in 1..n |-> <<d[i][1], s0 + i>>]),
          !.scripts = Append(@, [w.scripts[a] EXCEPT !.sections = Len(w.dicts) + 1]),
          !.ret = Len(w.scripts) + 1]

----------------------------------------------------------------------------
(* Textual transforms (script_improver.py, lines 258-343) *)

\* a content value that is not a string (a patch of the model carried a
\* number); pydantic does not validate assignments
NonStr == <<"#non-str">>

_reduce_repetition(content) ==
    LET replaced ==
            IF HasSub(content, Has.payment) /\ HasSub(content, Has.options)
            THEN Replace(content,
                         <<ScriptText.today, NL, NL, ScriptText.ifcan, NL, ScriptText.howmuch>>,
                         <<ScriptText.today, ImprovedText.ifso>>)
            ELSE content
    IN replaced \o <<NL, NL, ImprovedText.outline>>

_enhance_negotiation(content) ==
    LET replaced ==
            IF HasSub(content, Has.Option1) /\ HasSub(content, Has.Option2)
            THEN Replace(content, <<ScriptText.opt1, NL, ScriptText.opt2>>, <<ImprovedText.opts3>>)
            ELSE content
    IN replaced \o <<NL, NL, ImprovedText.whichever>>

_strengthen_closing(content) ==
    Replace(content, <<ScriptText.summarize>>, <<ImprovedText.toconfirm>>)
        \o <<NL, NL, ImprovedText.onceconfirm>>

_improve_compliance(content) ==
    LET c1 == IF HasSub(content, Has.AgentName) /\ HasSub(content, Has.CompanyName)
              THEN Replace(content, <<ScriptText.hello>>, <<ImprovedText.hello2>>)
              ELSE content
        c2 == IF HasSub(c1, Has.recorded)
              THEN Replace(c1, <<ScriptText.recorded>>, <<ImprovedText.recorded2>>)
              ELSE c1
    IN IF ~HasSub(c2, Has.regarding_loan)
       THEN Replace(c2, <<ScriptText.regarding>>, <<ScriptText.regarding, ImprovedText.purpose>>)
       ELSE c2

----------------------------------------------------------------------------
(* Rational numbers for metric values *)

R(n, d) == [n |-> n, d |-> d]
RLt(a, b) == a.n * b.d < b.n * a.d
RGt(a, b) == RLt(b, a)
RLe(a, b) == ~RLt(b, a)
REq(a, b) == a.n * b.d = b.n * a.d

RECURSIVE Gcd(_, _)
Gcd(a, b) == IF b = 0 THEN a ELSE Gcd(b, a % b)
Abs(x) == IF x < 0 THEN -x ELSE x
RNorm(n, d) == LET g == Gcd(Abs(n), d) IN R(n \div g, d \div g)
RAdd(a, b) == RNorm(a.n * b.d + b.n * a.d, a.d * b.d)
RSub(a, b) == RNorm(a.n * b.d - b.n * a.d, a.d * b.d)
RTimes(k, a) == RNorm(k * a.n, a.d)
RDiv(a, k) == RNorm(a.n, a.d * k)
RMin(a, b) == IF RLt(b, a) THEN b ELSE a
RMax(a, b) == IF RLt(a, b) THEN b ELSE a
Zero == R(0, 1)
One == R(1, 1)

RECURSIVE RSum(_)
RSum(seq) == IF seq = <<>> THEN Zero ELSE RAdd(seq[1], RSum(Tail(seq)))

\* the metrics dictionary as evaluate_conversations initialises it
ZeroMetrics ==
    [repetition_rate |-> Zero, negotiation_effectiveness |-> Zero,
     average_turn_count |-> Zero, resolution_rate |-> Zero, compliance_score |-> Zero]

\* no evaluation has run
EvalNone ==
    [done |-> FALSE,
     run |-> [repetition_scores |-> <<>>, negotiation_scores |-> <<>>,
              turn_counts |-> <<>>, resolution_runs |-> <<>>,
              compliance_scores |-> <<>>, metrics |-> ZeroMetrics]]

----------------------------------------------------------------------------
(* Values decoded from JSON or built by callers.  One record shape for all *)
(* of them: shape says which Python type the value has, has lists the keys *)
(* of a dict, bad lists the keys whose value is not of the declared type.  *)

PyVal(shape, text, has, bad, nm, cont, desc, nxt) ==
    [shape |-> shape, text |-> text, has |-> has, bad |-> bad, name |-> nm,
     content |-> cont, description |-> desc, next_sections |-> nxt]

PyStr(text) == PyVal("str", text, {}, {}, "", <<>>, <<>>, <<>>)
PyNum == PyVal("num", <<>>, {}, {}, "", <<>>, <<>>, <<>>)
PyDict(has, bad, nm, cont, desc, nxt) ==
    PyVal("dict", <<>>, has, bad, nm, cont, desc, nxt)

\* a JSON array or object at the top of a directive field
PyItems(shape, items) == [shape |-> shape, items |-> items]

\* name.lower().replace(" ", "_")
IdOfName(nm) ==
    CASE nm = "Alternative Payment Options" -> "alternative_payment_options"
      [] nm = "Objection Handling" -> "objection_handling"
      [] nm = "Payment Plan" -> "payment_plan"
      [] nm = "payment plan" -> "payment_plan"
      [] nm = "Payment Plan 10" -> "payment_plan_10"
      [] nm = "Empathy" -> "empathy"
      [] OTHER -> nm

\* section_id.replace("_", " ").title()
TitleOfId(id) ==
    CASE id = "empathy" -> "Empathy"
      [] id = "objection_handling" -> "Objection Handling"
      [] id = "late_fees" -> "Late Fees"
      [] OTHER -> id

\* substring tests on ids; a "_<count>" suffix adds no letters, so the tests
\* are decided by the id before it is disambiguated
IdHas ==
    [ objection |->
          {"objection_handling"},
      payment |->
          {"alternative_payment_options", "payment_plan",
                            "payment_plan_10", "payment_discussion"},
      option |->
          {"alternative_payment_options", "hardship_options"} ]

----------------------------------------------------------------------------
(* Rule-based edit (script_improver.py, lines 57-149) *)

SetSec(w, sa, field, val) == [w EXCEPT !.secs[sa][field] = val]

Raise(w, e) == [w EXCEPT !.exc = e]

\* an elif chain whose negotiation test uses a lower threshold than the
\* rule table of the synthesizer
TransformOfLowerThreshold(sid, metrics) ==
    IF sid = "payment_discussion" /\ RGt(metrics.repetition_rate, R(3, 10))
    THEN "reduce_repetition"
    ELSE IF sid = "payment_plan" /\ RLt(metrics.negotiation_effectiveness, R(5, 10))
    THEN "enhance_negotiation"
    ELSE IF sid = "confirmation" /\ RLt(metrics.resolution_rate, R(5, 10))
    THEN "strengthen_closing"
    ELSE IF sid = "introduction" /\ RLt(metrics.compliance_score, R(8, 10))
    THEN "improve_compliance"
    ELSE "note"

\* which transform the elif chain selects for a free-text improvement
TransformOf(sid, metrics) ==
    IF sid = "payment_discussion" /\ RGt(metrics.repetition_rate, R(3, 10))
    THEN "reduce_repetition"
    ELSE IF sid = "payment_plan" /\ RLt(metrics.negotiation_effectiveness, R(6, 10))
    THEN "enhance_negotiation"
    ELSE IF sid = "confirmation" /\ RLt(metrics.resolution_rate, R(5, 10))
    THEN "strengthen_closing"
    ELSE IF sid = "introduction" /\ RLt(metrics.compliance_score, R(8, 10))
    THEN "improve_compliance"
    ELSE "note"

ImproveTextSection(w, sa, sid, imp, metrics) ==
    LET sec == w.secs[sa]
        w1 == SetSec(w, sa, "description",
                     sec.description \o <<NL, "Improved: ">> \o imp.text)
        tr == TransformOf(sid, metrics)
    IN IF tr = "note"
       THEN SetSec(w1, sa, "content",
                   sec.content \o <<NL, NL, "[Note: ">> \o imp.text \o <<"]">>)
       ELSE IF sec.content = NonStr
       THEN \* content.lower(), content.replace or "..." in content
            Raise(w1, IF tr \in {"reduce_repetition", "strengthen_closing"}
                      THEN "AttributeError" ELSE "TypeError")
       ELSE SetSec(w1, sa, "content",
                CASE tr = "reduce_repetition" -> _reduce_repetition(sec.content)
                  [] tr = "enhance_negotiation" -> _enhance_negotiation(sec.content)
                  [] tr = "strengthen_closing" -> _strengthen_closing(sec.content)
                  [] OTHER -> _improve_compliance(sec.content))

ImprovePatchSection(w, sa, imp) ==
    LET w1 == SetSec(w, sa, "content", imp.content)
    IN IF "description" \in imp.has
       THEN SetSec(w1, sa, "description", imp.description)
       ELSE w1

ImproveOne(w, a, sid, imp, metrics) ==
    IF ~HasSection(w, a, sid) THEN w
    ELSE LET sa == SecAddr(w, a, sid)
         IN IF imp.shape = "str" THEN ImproveTextSection(w, sa, sid, imp, metrics)
            ELSE IF imp.shape = "dict" /\ "content" \in imp.has
                 THEN ImprovePatchSection(w, sa, imp)
                 ELSE w

RECURSIVE ImproveEach(_, _, _, _)
ImproveEach(w, a, items, metrics) ==
    IF items = <<>> \/ w.exc # NoExc THEN w
    ELSE ImproveEach(ImproveOne(w, a, items[1][1], items[1][2], metrics),
                     a, Tail(items), metrics)

_apply_section_improvements(w, a, fb) ==
    IF w.exc # NoExc THEN w
    ELSE IF fb.section_improvements.shape # "dict"
         THEN Raise(w, "AttributeError")    \* .items() on a non-dict
         ELSE ImproveEach(w, a, fb.section_improvements.items, fb.metrics)

AppendEdge(w, la, tgt) == [w EXCEPT !.lists[la] = Append(@, tgt)]

\* an edge insertion in the wrong direction: from the target to the source
_update_section_flow_reversed(w, a, src, tgt) ==
    IF HasSection(w, a, src) /\ HasSection(w, a, tgt)
    THEN LET la == w.secs[SecAddr(w, a, tgt)].next_sections
         IN IF src \notin Range(w.lists[la]) THEN AppendEdge(w, la, src) ELSE w
    ELSE w
\* an edge insertion without the membership test
_update_section_flow_unguarded(w, a, src, tgt) ==
    IF HasSection(w, a, src) /\ HasSection(w, a, tgt)
    THEN AppendEdge(w, w.secs[SecAddr(w, a, src)].next_sections, tgt)
    ELSE w
\* _update_section_flow: append tgt to src's next_sections unless present
_update_section_flow(w, a, src, tgt) ==
    IF HasSection(w, a, src) /\ HasSection(w, a, tgt)
    THEN LET la == w.secs[SecAddr(w, a, src)].next_sections
         IN IF tgt \notin Range(w.lists[la])
            THEN AppendEdge(w, la, tgt)
            ELSE w
    ELSE w

\* the id under which a new section is stored
NewSectionId(w, a, base) ==
    IF HasSection(w, a, base)
    THEN base \o "_" \o ToString(Len(SectionsOf(w, a)))
    ELSE base

\* script.sections = {section_id: section}: the other sections are dropped
PutSectionAlone(w, a, sid, sa) ==
    [w EXCEPT !.dicts[w.scripts[a].sections] = << <<sid, sa>> >>]
\* script.sections[section_id] = section
PutSection(w, a, sid, sa) ==
    [w EXCEPT !.dicts[w.scripts[a].sections] = DictSet(@, sid, sa)]

AddOne(w, a, e) ==
    IF ~(e.shape = "dict" /\ "name" \in e.has /\ "content" \in e.has) THEN w
    ELSE IF "name" \in e.bad THEN Raise(w, "AttributeError")   \* .lower()
    ELSE LET base == IdOfName(e.name)
             sid == NewSectionId(w, a, base)
         IN IF e.bad \cap e.has \cap {"content", "description", "next_sections"} # {}
            THEN Raise(w, "ValidationError")
            ELSE LET w1 == ScriptSection(w, sid, e.name,
                               IF "description" \in e.has THEN e.description
                                                          ELSE D_added,
                               e.content,
                               IF "next_sections" \in e.has THEN e.next_sections
                                                            ELSE <<"confirmation">>)
                     w2 == PutSection(w1, a, sid, w1.ret)
                 IN IF base \in IdHas.objection
                    THEN _update_section_flow(
                             _update_section_flow(w2, a, "payment_discussion", sid),
                             a, "hardship_options", sid)
                    ELSE IF base \in IdHas.payment \/ base \in IdHas.option
                         THEN _update_section_flow(w2, a, "payment_discussion", sid)
                         ELSE w2

RECURSIVE AddEach(_, _, _)
AddEach(w, a, items) ==
    IF items = <<>> \/ w.exc # NoExc THEN w
    ELSE AddEach(AddOne(w, a, items[1]), a, Tail(items))

_add_new_sections(w, a, fb) ==
    IF w.exc # NoExc THEN w
    ELSE IF fb.additional_sections_needed.shape = "none"
         THEN Raise(w, "TypeError")         \* iterating None
         ELSE AddEach(w, a, fb.additional_sections_needed.items)

\* the whole rule-based edit of a script object
RuleBasedEdit(w, a, fb) ==
    _add_new_sections(_apply_section_improvements(w, a, fb), a, fb)

----------------------------------------------------------------------------
(* Persistence (debt_collection_agent.py, lines 78-106) *)

FileKey(version) == <<"script_v">> \o version \o <<".json">>

\* a save_script that writes the file a second time
save_script_twice(w, a, key, storeOk) ==
    [w EXCEPT !.store = IF storeOk THEN DictSet(@, key, ScriptValue(w, a)) ELSE @,
              !.saves = @ \o <<[key |-> key, obj |-> a, ok |-> storeOk],
                                [key |-> key, obj |-> a, ok |-> storeOk]>>]
\* a save_script that lets the error of a failed write escape
save_script_raising(w, a, key, storeOk) ==
    IF storeOk
    THEN [w EXCEPT !.store = DictSet(@, key, ScriptValue(w, a)),
                   !.saves = Append(@, [key |-> key, obj |-> a, ok |-> TRUE])]
    ELSE Raise(w, "OSError")
\* save_script: writes model_dump() of the script under the key; when the
\* write fails the exception is caught and False is returned
save_script(w, a, key, storeOk) ==
    IF storeOk
    THEN [w EXCEPT !.store = DictSet(@, key, ScriptValue(w, a)),
                   !.saves = Append(@, [key |-> key, obj |-> a, ok |-> TRUE])]
    ELSE [w EXCEPT !.saves = Append(@, [key |-> key, obj |-> a, ok |-> FALSE])]

----------------------------------------------------------------------------
(* Model-assisted rewrite (script_improver.py, lines 151-256) *)

JsonKeys == {"content", "description", "name", "next_sections"}

NewList(w, seq) == [w EXCEPT !.lists = Append(@, seq), !.ret = Len(w.lists) + 1]

PatchExisting(w, sa, sd) ==
    LET w1 == IF "content" \in sd.has
              THEN SetSec(w, sa, "content",
                          IF "content" \in sd.bad THEN NonStr ELSE sd.content)
              ELSE w
        w2 == IF "description" \in sd.has
              THEN SetSec(w1, sa, "description", sd.description) ELSE w1
        w3 == IF "name" \in sd.has THEN SetSec(w2, sa, "name", sd.name) ELSE w2
    IN IF "next_sections" \in sd.has
       THEN LET w4 == NewList(w3, sd.next_sections)
            IN SetSec(w4, sa, "next_sections", w4.ret)
       ELSE w3

PatchOne(w, a, sid, sd) ==
    IF HasSection(w, a, sid)
    THEN CASE sd.shape = "dict" -> PatchExisting(w, SecAddr(w, a, sid), sd)
           [] sd.shape = "str" ->
                 \* "content" in section_data is a substring test; a hit is
                 \* followed by section_data["content"]
                 IF Range(sd.text) \cap JsonKeys # {} THEN Raise(w, "TypeError")
                 ELSE w
           [] OTHER -> Raise(w, "TypeError")
    ELSE IF sd.shape # "dict" THEN Raise(w, "AttributeError")   \* .get
    ELSE IF sd.bad \cap sd.has # {} THEN Raise(w, "ValidationError")
    ELSE LET w1 == ScriptSection(w, sid,
                       IF "name" \in sd.has THEN sd.name ELSE TitleOfId(sid),
                       IF "description" \in sd.has THEN sd.description ELSE D_added,
                       IF "content" \in sd.has THEN sd.content ELSE <<>>,
                       IF "next_sections" \in sd.has THEN sd.next_sections
                                                    ELSE <<"confirmation">>)
         IN PutSection(w1, a, sid, w1.ret)

RECURSIVE PatchEach(_, _, _)
PatchEach(w, a, items) ==
    IF items = <<>> \/ w.exc # NoExc THEN w
    ELSE PatchEach(PatchOne(w, a, items[1][1], items[1][2]), a, Tail(items))

\* the body of the try block: request, json.loads, apply the response
ApiAttempt(w, a, resp) ==
    LET w1 == [w EXCEPT !.gen = @ + 1]
    IN CASE resp.kind = "api_error" -> Raise(w1, "APIError")
         [] resp.kind = "bad_json" -> Raise(w1, "JSONDecodeError")
         [] resp.kind = "not_object" -> Raise(w1, "AttributeError")
         [] OTHER -> PatchEach(w1, a, resp.data)

SetVersion(w, a, ver) == [w EXCEPT !.scripts[a].version = ver]

_improve_script_with_api(w, cur, fb, resp, storeOk) ==
    LET w1 == deepcopy(w, cur)
        a == w1.ret
        t == ParseFloat(w1.scripts[a].version)
    IN IF t = -1 THEN Raise(w1, "ValueError")
       ELSE LET w2 == SetVersion(w1, a, BumpVersion(t))
                w3 == ApiAttempt(w2, a, resp)
                w4 == IF w3.exc = NoExc
                      THEN [w3 EXCEPT !.path = "api"]
                      ELSE RuleBasedEdit([w3 EXCEPT !.exc = NoExc,
                                                    !.path = "api_fallback"], a, fb)
            IN IF w4.exc # NoExc THEN w4
               ELSE [save_script(w4, a, FileKey(w4.scripts[a].version), storeOk)
                        EXCEPT !.ret = a]

----------------------------------------------------------------------------
(* improve_script (script_improver.py, lines 14-55) *)

\* os.getenv("OPENAI_API_KEY") and feedback.get("general_feedback")
UseApiKeyOnly(api_key, fb) == api_key
UseApi(api_key, fb) == api_key /\ fb.general_feedback # <<>>

improve_script(w, cur, fb, env) ==
    LET w0 == [w EXCEPT !.gen = 0, !.saves = <<>>, !.exc = NoExc, !.path = "none"]
        w1 == deepcopy(w0, cur)
        a == w1.ret
        t == ParseFloat(w1.scripts[a].version)
    IN IF t = -1 THEN Raise(w1, "ValueError")
       ELSE
       LET w2 == SetVersion(w1, a, BumpVersion(t))
           r == IF UseApi(env.api_key, fb)
                THEN _improve_script_with_api(w2, cur, fb, env.resp, env.storeOk)
                ELSE w2
       IN IF UseApi(env.api_key, fb) /\ r.exc = NoExc THEN r
          ELSE LET w3 == [r EXCEPT !.exc = NoExc,
                                   !.path = IF UseApi(env.api_key, fb)
                                            THEN "outer_fallback" ELSE "rule"]
                   w4 == RuleBasedEdit(w3, a, fb)
               IN IF w4.exc # NoExc THEN w4
                  ELSE [save_script(w4, a, FileKey(w4.scripts[a].version),
                                    env.storeOk)
                           EXCEPT !.ret = a]

----------------------------------------------------------------------------
(* Feedback synthesis (performance_evaluator.py, lines 60-79, 341-496) *)

GeneralText ==
    [ repeat |->
          "The agent is repeating information too frequently. ",
      negot |->
          "The agent's negotiation approach needs improvement. ",
      resol |->
          "Many conversations are ending without a clear resolution. ",
      compl |->
          "There are compliance issues in the agent's script. ",
      adequate |->
          "The agent is performing adequately overall." ]

ImprovementText ==
    [ repeat |->
          "Reduce repetition of payment options. Consolidate payment information into clearer, more concise statements.",
      negot |->
          "Include more flexible payment options. Add language that acknowledges customer concerns and offers alternatives based on their situation.",
      resol |->
          "Strengthen the closing agreement language. Add more direct questions to confirm customer agreement and commitment.",
      compl |->
          "Ensure all compliance elements are present: agent identification, company name, recording disclosure, and purpose of call." ]

When(c, seq) == IF c THEN seq ELSE <<>>

NewSectionEntry(nm, cont) == PyDict({"name", "content"}, {}, nm, cont, <<>>, <<>>)

\* thresholds of the rule table
FiresRepetitionAtThreshold(m) == RLe(R(3, 10), m.repetition_rate)
FiresRepetition(m) == RGt(m.repetition_rate, R(3, 10))
FiresNegotiation(m) == RLt(m.negotiation_effectiveness, R(6, 10))
FiresResolution(m) == RLt(m.resolution_rate, R(5, 10))
FiresCompliance(m) == RLt(m.compliance_score, R(8, 10))
FiresAltPayment(m) == RLt(m.negotiation_effectiveness, R(4, 10))
FiresObjectionEarly(m) == RLt(m.resolution_rate, R(5, 10))
FiresObjection(m) == RLt(m.resolution_rate, R(3, 10))

_generate_improvement_feedback_rule_based(m) ==
    LET gf == When(FiresRepetition(m), <<GeneralText.repeat>>)
              \o When(FiresNegotiation(m), <<GeneralText.negot>>)
              \o When(FiresResolution(m), <<GeneralText.resol>>)
              \o When(FiresCompliance(m), <<GeneralText.compl>>)
    IN [metrics |-> m,
        general_feedback |-> IF gf = <<>> THEN <<GeneralText.adequate>> ELSE gf,
        script_improvements |-> <<>>,
        additional_sections_needed |->
            PyItems("list",
                When(FiresAltPayment(m),
                     <<NewSectionEntry("Alternative Payment Options", <<SectionText.altpay>>)>>)
                \o When(FiresObjection(m),
                     <<NewSectionEntry("Objection Handling", <<SectionText.objection>>)>>)),
        section_improvements |->
            PyItems("dict",
                When(FiresRepetition(m), << <<"payment_discussion", PyStr(<<ImprovementText.repeat>>)>> >>)
                \o When(FiresNegotiation(m), << <<"payment_plan", PyStr(<<ImprovementText.negot>>)>> >>)
                \o When(FiresResolution(m), << <<"confirmation", PyStr(<<ImprovementText.resol>>)>> >>)
                \o When(FiresCompliance(m), << <<"introduction", PyStr(<<ImprovementText.compl>>)>> >>))]

\* a response of the generation capability fails the try block unless it
\* is a JSON object
Failed(resp) == resp.kind # "ok"

\* the except branch: the directive built so far is dropped
SynthesisFallbackKeep(partial, m) ==
    [_generate_improvement_feedback_rule_based(m) EXCEPT
        !.general_feedback = IF partial.general_feedback # <<>>
                             THEN partial.general_feedback ELSE @]
SynthesisFallback(partial, m) == _generate_improvement_feedback_rule_based(m)

\* r1 answers the general-feedback request, r2 the section request
_generate_improvement_feedback_with_api(m, r1, r2) ==
    LET f0 == [metrics |-> m, general_feedback |-> <<>>,
               script_improvements |-> <<>>,
               additional_sections_needed |-> PyItems("list", <<>>),
               section_improvements |-> PyItems("dict", <<>>)]
        f1 == [f0 EXCEPT !.general_feedback = r1.general_feedback]
        f2 == [f1 EXCEPT !.section_improvements = r2.section_improvements,
                         !.additional_sections_needed = r2.additional_sections_needed]
    IN IF Failed(r1) THEN SynthesisFallback(f0, m)
       ELSE IF Failed(r2) THEN SynthesisFallback(f1, m)
       ELSE f2

generate_improvement_feedback(api_key, m, r1, r2) ==
    IF api_key THEN _generate_improvement_feedback_with_api(m, r1, r2)
    ELSE _generate_improvement_feedback_rule_based(m)

\* number of generation requests the synthesis issues
FeedbackRequests(api_key, r1) ==
    IF ~api_key THEN 0 ELSE IF Failed(r1) THEN 1 ELSE 2

----------------------------------------------------------------------------
(* Inputs of improve_script *)

Metrics(rep, neg, res, com) ==
    [repetition_rate |-> rep, negotiation_effectiveness |-> neg,
     average_turn_count |-> R(0, 1), resolution_rate |-> res,
     compliance_score |-> com]

MetricGrid == {R(k, MetricDen) : k \in 0..MetricDen}

SampleMetrics ==
    [ scenario |->
          Metrics(R(4, 10), R(5, 10), R(4, 10), R(9, 10)),
      poor |->
          Metrics(R(1, 1), R(0, 1), R(0, 1), R(0, 1)),
      good |->
          Metrics(R(0, 1), R(1, 1), R(1, 1), R(1, 1)) ]

\* scenario, poor: directives the rule-based synthesizer returns;
\* custom: a directive of the model-assisted synthesizer (a structured patch,
\* free text for a section without a transform, an unknown section, a new
\* section whose id collides, entries that are skipped);
\* silent: the model returned no general_feedback text, and a new section
\* whose next_sections names one id twice;
\* malformed: the model returned a new section whose name is not a string
SampleDirective ==
    [ scenario |->
          _generate_improvement_feedback_rule_based(SampleMetrics.scenario),
      poor |->
          _generate_improvement_feedback_rule_based(SampleMetrics.poor),
      custom |->
          [metrics |-> SampleMetrics.good, general_feedback |-> <<"model feedback">>,
               script_improvements |-> <<>>,
               additional_sections_needed |->
                  PyItems("list", <<NewSectionEntry("Payment Plan", <<InputText.custom2>>),
                                    PyStr(<<"not an object">>),
                                    PyDict({"name"}, {}, "Empathy", <<>>, <<>>, <<>>)>>),
               section_improvements |->
                  PyItems("dict",
                      << <<"verification", PyStr(<<InputText.note>>)>>,
                         <<"payment_plan", PyDict({"content", "description"}, {}, "",
                                                  <<InputText.custom1>>, <<"patched description">>, <<>>)>>,
                         <<"no_such_section", PyStr(<<InputText.note>>)>> >>)],
      silent |->
          [metrics |-> SampleMetrics.scenario, general_feedback |-> <<>>,
               script_improvements |-> <<>>,
               additional_sections_needed |->
                  PyItems("list", <<PyDict({"name", "content", "next_sections"}, {},
                                           "Payment Plan 10", <<InputText.custom2>>, <<>>,
                                           <<"confirmation", "confirmation">>)>>),
               section_improvements |->
                  PyItems("dict", << <<"payment_discussion", PyStr(<<InputText.note>>)>> >>)],
      malformed |->
          [metrics |-> SampleMetrics.good, general_feedback |-> <<"model feedback">>,
               script_improvements |-> <<>>,
               additional_sections_needed |->
                  PyItems("list", <<PyDict({"name", "content"}, {"name"}, "", <<InputText.custom2>>,
                                           <<>>, <<>>)>>),
               section_improvements |->
                  PyItems("dict", << <<"closing", PyStr(<<InputText.note>>)>> >>)] ]

Directives == Range(SampleDirective)

\* answers of the generation capability to the rewrite request
Resp(kind, data) == [kind |-> kind, data |-> data]

\* partial: the second entry fails validation after the first one was applied;
\* nonstr: a number as the content of an existing section, then a failing entry
SampleResponse ==
    [ error |->
          Resp("api_error", <<>>),
      rewrite |->
          Resp("ok", << <<"introduction",
                              PyDict({"content", "description", "name", "next_sections"}, {},
                                     "Opening", <<InputText.custom1>>, <<"rewritten">>,
                                     <<"verification", "empathy">>)>>,
                            <<"empathy", PyDict({"content"}, {}, "", <<InputText.custom2>>, <<>>, <<>>)>> >>),
      partial |->
          Resp("ok", << <<"payment_discussion",
                              PyDict({"content"}, {}, "", <<InputText.custom2>>, <<>>, <<>>)>>,
                            <<"late_fees", PyDict({"content"}, {"content"}, "", <<>>, <<>>, <<>>)>> >>),
      nonstr |->
          Resp("ok", << <<"payment_discussion",
                              PyDict({"content"}, {"content"}, "", <<>>, <<>>, <<>>)>>,
                            <<"late_fees", PyNum>> >>) ]

Responses == Range(SampleResponse)

Env(api_key, resp, storeOk) ==
    [api_key |-> api_key, resp |-> resp, storeOk |-> storeOk]

\* the store fails on the rule-based path and on one model-assisted path
Envs == {Env(FALSE, SampleResponse.error, ok) : ok \in BOOLEAN}
        \cup {Env(TRUE, r, TRUE) : r \in Responses}
        \cup {Env(TRUE, SampleResponse.rewrite, FALSE)}

\* version strings a base script can carry: the default, one before a
\* carry into the integer part, one that is not numeric
BaseVersions == {V(1, 0), V(9, 8), <<"v", "1">>}

----------------------------------------------------------------------------
(* The improvement state machine *)

World == [EmptyWorld EXCEPT !.scripts = scripts, !.dicts = dicts,
                            !.secs = secs, !.lists = lists, !.store = store]

NoScript == [script_id |-> "", version |-> <<>>, description |-> <<>>,
             sections |-> <<>>]

NoCall == [cur |-> 0, fb |-> SampleDirective.scenario, env |-> Env(FALSE, SampleResponse.error, TRUE),
           exc |-> NoExc, ret |-> 0, gen |-> 0, saves |-> <<>>,
           path |-> "none"]

\* answers of the generation capability to the two synthesis requests
Resp1(kind, gf) == [kind |-> kind, general_feedback |-> gf]
Resp2(kind, si, asn) ==
    [kind |-> kind, section_improvements |-> si, additional_sections_needed |-> asn]

Reply1 ==
    [ error |->
          Resp1("api_error", <<>>),
      badjson |->
          Resp1("bad_json", <<>>),
      ok |->
          Resp1("ok", <<"model narrative">>) ]
Reply2 ==
    [ error |->
          Resp2("api_error", PyItems("dict", <<>>), PyItems("list", <<>>)),
      badjson |->
          Resp2("bad_json", PyItems("dict", <<>>), PyItems("list", <<>>)),
      ok |->
          Resp2("ok",
                         PyItems("dict", << <<"introduction", PyStr(<<InputText.note>>)>> >>),
                         PyItems("list", <<NewSectionEntry("Empathy", <<InputText.custom2>>)>>)) ]

FbInput(api_key, m, r1, r2) ==
    [api_key |-> api_key, metrics |-> m, r1 |-> r1, r2 |-> r2]

FbIdle == FbInput(FALSE, SampleMetrics.good, Reply1.error, Reply2.error)
FbNone == [done |-> FALSE, gen |-> 0, directive |-> SampleDirective.scenario]

\* no conversation is being simulated; end_times lists, for every finish(),
\* the number of messages the conversation held at that moment
SimIdle == [pc |-> "idle", api_key |-> FALSE, max_turns |-> 0, turn |-> 0,
            conversations |-> <<>>, end_times |-> <<>>]

\* no improvement loop is running; latest_feedback.cycle = 0 is None
NoFeedback == [cycle |-> 0, version |-> <<>>, directive |-> SampleDirective.scenario]
NoSession == [mode |-> "none", pc |-> "idle", current_script |-> 0,
              latest_metrics |-> SampleMetrics.good, evals |-> 0,
              latest_feedback |-> NoFeedback, cycles |-> 0, used |-> <<>>]

\* load_base_script(): the default script, or the document of
\* config/base_script.json
load_base_script(w, ver) ==
    LET w1 == _create_default_script(w)
    IN SetVersion(w1, w1.ret, ver)

Init ==
    /\ \E ver \in BaseVersions :
         LET w == load_base_script(EmptyWorld, ver)
         IN /\ scripts = w.scripts /\ dicts = w.dicts
            /\ secs = w.secs /\ lists = w.lists
            /\ roots = {w.ret}
            /\ snap = [a \in {w.ret} |-> ScriptValue(w, a)]
    /\ store = <<>>
    /\ last = NoCall
    /\ calls = 0
    /\ fbIn = FbIdle /\ fbOut = FbNone
    /\ batch = <<>> /\ evalOut = EvalNone
    /\ sim = SimIdle
    /\ session = NoSession

ImproveScript(cur, fb, env) ==
    /\ calls < MaxCalls
    /\ \E w \in {improve_script(World, cur, fb, env)} :
       LET ok == w.exc = NoExc
       IN /\ scripts' = w.scripts /\ dicts' = w.dicts
          /\ secs' = w.secs /\ lists' = w.lists
          /\ store' = w.store
          /\ roots' = IF ok THEN roots \cup {w.ret} ELSE roots
          /\ snap' = IF ok
                     THEN [a \in roots \cup {w.ret} |->
                             IF a = w.ret THEN ScriptValue(w, a) ELSE snap[a]]
                     ELSE snap
          /\ last' = [cur |-> cur, fb |-> fb, env |-> env, exc |-> w.exc,
                      ret |-> IF ok THEN w.ret ELSE 0, gen |-> w.gen,
                      saves |-> w.saves, path |-> w.path]
    /\ calls' = calls + 1
    /\ UNCHANGED <<fbVars, evalVars, loopVars, simVars>>

Next == \E cur \in roots, fb \in Directives, env \in Envs : ImproveScript(cur, fb, env)

Spec == Init /\ [][Next]_vars

----------------------------------------------------------------------------
(* Properties of improve_script *)

Called == last.cur # 0
Returned == Called /\ last.exc = NoExc

\* the input script as the caller handed it in, and the script returned
Before == IF Called THEN snap[last.cur] ELSE NoScript
After == IF Returned THEN snap[last.ret] ELSE NoScript

OneFractionalDigit(v) ==
    /\ Len(v) >= 3 /\ v[Len(v) - 1] = "." /\ IsDigit(v[Len(v)])
    /\ AllDigits(SubSeq(v, 1, Len(v) - 2))

\* what the rule-based edit alone makes of a script value: a fresh script
\* with the version bumped once, edited by the two rule-based passes
RuleBasedResult(val, fb) ==
    LET w0 == DebtCollectionScript(EmptyWorld, val.script_id,
                                   Format1f(ParseFloat(val.version) + 1),
                                   val.description, val.sections)
        w1 == _add_new_sections(_apply_section_improvements(w0, w0.ret, fb),
                                w0.ret, fb)
    IN IF w1.exc # NoExc THEN NoScript ELSE ScriptValue(w1, w0.ret)

\* C1: for an input version with one fractional digit, the returned
\* script's version is the input version plus one tenth, formatted to one
\* decimal place, on every path: "1.0" gives "1.1", "1.1" gives "1.2", and
\* "9.9" gives "10.0".
C1_VersionBumpedOnce ==
    (Returned /\ OneFractionalDigit(Before.version)) =>
        LET vin == Before.version
            vout == After.version
        IN /\ OneFractionalDigit(vout)
           /\ ParseFloat(vout) = ParseFloat(vin) + 1
           /\ (vin = <<"1", ".", "0">> => vout = <<"1", ".", "1">>)
           /\ (vin = <<"1", ".", "1">> => vout = <<"1", ".", "2">>)
           /\ (vin = <<"9", ".", "8">> => vout = <<"9", ".", "9">>)
           /\ (vin = <<"9", ".", "9">> => vout = <<"1", "0", ".", "0">>)

\* a second improvement in a chain, taken through the fallback of the
\* model-assisted rewrite, carried the version into the integer part
C1_Witness ==
    /\ Returned /\ calls = 2 /\ last.path = "api_fallback"
    /\ Before.version = <<"9", ".", "9">>
    /\ After.version = <<"1", "0", ".", "0">>

\* C2: improve_script leaves its input as it was, every script returned
\* earlier keeps the value it was returned with, and two scripts held by the
\* caller share no dict, no section object and no next_sections list.
C2_InputUnmodified ==
    /\ \A a \in roots : ScriptValue(World, a) = snap[a]
    /\ \A a, b \in roots :
         a # b => /\ scripts[a].sections # scripts[b].sections
                  /\ SecAddrsOf(World, a) \cap SecAddrsOf(World, b) = {}
                  /\ ListAddrsOf(World, a) \cap ListAddrsOf(World, b) = {}

\* an improved script was improved again, by a rewrite that failed part-way
C2_Witness ==
    /\ Returned /\ calls = 2 /\ last.cur # 1
    /\ last.path = "api_fallback" /\ last.env.resp = SampleResponse.partial
    /\ After # Before

\* C3: the only error that leaves improve_script is the version-format
\* error, raised when the current version string is not numeric.
C3_OnlyVersionError ==
    Called => \/ last.exc = NoExc
              \/ last.exc = "ValueError" /\ ParseFloat(Before.version) = -1

\* C4: when the model-assisted rewrite was attempted and failed, the script
\* returned is the one the rule-based edit alone produces.
C4_TransparentFallback ==
    (Returned /\ last.path \in {"api_fallback", "outer_fallback"}) =>
        After = RuleBasedResult(Before, last.fb)

\* C6 as stated: a generation request is issued exactly when the capability
\* is available and general_feedback is non-empty.
C6_RequestIffSelected ==
    Called =>
        /\ (last.gen >= 1) <=> (last.env.api_key /\ last.fb.general_feedback # <<>>)
        /\ (Returned /\ ~(last.env.api_key /\ last.fb.general_feedback # <<>>)) =>
              After = RuleBasedResult(Before, last.fb)

\* C6 amended: for an input whose version is numeric, exactly one generation
\* request is issued when the capability is available and general_feedback
\* is non-empty, and none otherwise; without a request the returned script
\* is the result of the rule-based edit.
C6_StrategySelection ==
    (Called /\ ParseFloat(Before.version) # -1) =>
        /\ last.gen = IF last.env.api_key /\ last.fb.general_feedback # <<>>
                      THEN 1 ELSE 0
        /\ (Returned /\ last.gen = 0) =>
              /\ last.path = "rule"
              /\ After = RuleBasedResult(Before, last.fb)

\* the capability was available but the directive carried no general
\* feedback: the edit ran without a request
C6_Witness ==
    /\ Returned /\ last.env.api_key /\ last.fb.general_feedback = <<>>
    /\ last.gen = 0 /\ After # Before

----------------------------------------------------------------------------
(* Feedback synthesis as a state machine: one call per behaviour *)

InitFb ==
    /\ scripts = <<>> /\ dicts = <<>> /\ secs = <<>> /\ lists = <<>>
    /\ store = <<>> /\ roots = {} /\ snap = <<>>
    /\ last = NoCall /\ calls = 0
    /\ \/ \E a \in MetricGrid, b \in MetricGrid, c \in MetricGrid, d \in MetricGrid :
             fbIn = FbInput(FALSE, Metrics(a, b, c, d), Reply1.error, Reply2.error)
       \/ \E a \in {R(4, 10), R(3, 10)}, b \in MetricGrid, c \in MetricGrid,
             d \in {R(9, 10), R(7, 10)},
             r1 \in Range(Reply1),
             r2 \in Range(Reply2) :
             fbIn = FbInput(TRUE, Metrics(a, b, c, d), r1, r2)
    /\ fbOut = FbNone
    /\ batch = <<>> /\ evalOut = EvalNone
    /\ sim = SimIdle
    /\ session = NoSession

Synthesize ==
    /\ ~fbOut.done
    /\ fbOut' = [done |-> TRUE,
                 gen |-> FeedbackRequests(fbIn.api_key, fbIn.r1),
                 directive |-> generate_improvement_feedback(
                                   fbIn.api_key, fbIn.metrics, fbIn.r1, fbIn.r2)]
    /\ UNCHANGED <<fbIn, scriptVars, evalVars, loopVars, simVars>>

NextFb == Synthesize

SpecFb == InitFb /\ [][NextFb]_vars

\* the deterministic path produced the directive
RuleBasedRun ==
    fbOut.done /\ (~fbIn.api_key \/ Failed(fbIn.r1) \/ Failed(fbIn.r2))

ImprovementKeys(d) ==
    {d.section_improvements.items[i][1] : i \in DOMAIN d.section_improvements.items}

AddedNames(d) ==
    [i \in DOMAIN d.additional_sections_needed.items |->
        d.additional_sections_needed.items[i].name]

\* C5: when either request of the model-assisted synthesis fails, the
\* directive returned equals, field by field, the rule-based directive for
\* the same metrics, and carries nothing of the first response.
C5_AllOrNothingSynthesis ==
    (fbOut.done /\ fbIn.api_key /\ (Failed(fbIn.r1) \/ Failed(fbIn.r2))) =>
        LET d == fbOut.directive
            rb == _generate_improvement_feedback_rule_based(fbIn.metrics)
        IN /\ d.metrics = rb.metrics
           /\ d.general_feedback = rb.general_feedback
           /\ d.script_improvements = rb.script_improvements
           /\ d.section_improvements = rb.section_improvements
           /\ d.additional_sections_needed = rb.additional_sections_needed
           /\ Range(d.general_feedback) \subseteq
                 {GeneralText.repeat, GeneralText.negot, GeneralText.resol, GeneralText.compl, GeneralText.adequate}
           /\ Range(d.general_feedback) \cap Range(fbIn.r1.general_feedback) = {}

\* the first request succeeded and the second one failed
C5_Witness ==
    /\ fbOut.done /\ fbIn.api_key /\ ~Failed(fbIn.r1) /\ Failed(fbIn.r2)
    /\ fbOut.gen = 2
    /\ fbIn.r1.general_feedback # <<>>
    /\ fbOut.directive.general_feedback = <<GeneralText.negot, GeneralText.resol>>

\* C7: on the rule-based path the keys of section_improvements are exactly
\* payment_discussion if repetition_rate > 0.3, payment_plan if
\* negotiation_effectiveness < 0.6, confirmation if resolution_rate < 0.5,
\* introduction if compliance_score < 0.8, each decided on its own and
\* strictly.
C7_ThresholdTable ==
    RuleBasedRun =>
        LET m == fbIn.metrics
            keys == ImprovementKeys(fbOut.directive)
        IN /\ keys \subseteq {"payment_discussion", "payment_plan",
                              "confirmation", "introduction"}
           /\ ("payment_discussion" \in keys) <=>
                 (10 * m.repetition_rate.n > 3 * m.repetition_rate.d)
           /\ ("payment_plan" \in keys) <=>
                 (10 * m.negotiation_effectiveness.n < 6 * m.negotiation_effectiveness.d)
           /\ ("confirmation" \in keys) <=>
                 (10 * m.resolution_rate.n < 5 * m.resolution_rate.d)
           /\ ("introduction" \in keys) <=>
                 (10 * m.compliance_score.n < 8 * m.compliance_score.d)
           /\ (m = Metrics(R(4, 10), R(5, 10), R(4, 10), R(9, 10)) =>
                 keys = {"payment_discussion", "payment_plan", "confirmation"})
           /\ Cardinality(keys) = Len(fbOut.directive.section_improvements.items)

\* every metric sits exactly on its threshold and nothing fires
C7_Witness ==
    /\ RuleBasedRun
    /\ fbIn.metrics = Metrics(R(3, 10), R(6, 10), R(5, 10), R(8, 10))
    /\ ImprovementKeys(fbOut.directive) = {}

\* C8: on the rule-based path additional_sections_needed holds
\* "Alternative Payment Options" iff negotiation_effectiveness < 0.4 and
\* "Objection Handling" iff resolution_rate < 0.3, in that order and nothing
\* else; a proposed section comes with the improvement of payment_plan,
\* respectively confirmation.
C8_NewSectionRules ==
    RuleBasedRun =>
        LET m == fbIn.metrics
            d == fbOut.directive
            alt == 10 * m.negotiation_effectiveness.n < 4 * m.negotiation_effectiveness.d
            obj == 10 * m.resolution_rate.n < 3 * m.resolution_rate.d
        IN /\ d.additional_sections_needed.shape = "list"
           /\ AddedNames(d) =
                 (IF alt THEN <<"Alternative Payment Options">> ELSE <<>>)
                 \o (IF obj THEN <<"Objection Handling">> ELSE <<>>)
           /\ \A i \in DOMAIN d.additional_sections_needed.items :
                 LET e == d.additional_sections_needed.items[i]
                 IN e.shape = "dict" /\ e.has = {"name", "content"} /\ e.bad = {}
           /\ alt => "payment_plan" \in ImprovementKeys(d)
           /\ obj => "confirmation" \in ImprovementKeys(d)

\* both sections are proposed, one metric just below its threshold and the
\* other one well below
C8_Witness ==
    /\ RuleBasedRun
    /\ fbIn.metrics.negotiation_effectiveness = R(3, 10)
    /\ fbIn.metrics.resolution_rate = R(0, 10)
    /\ AddedNames(fbOut.directive) =
          <<"Alternative Payment Options", "Objection Handling">>

----------------------------------------------------------------------------
(* Message text and pattern search (performance_evaluator.py uses          *)
(* re.search on lower-cased text).  A message is a sequence of words, each *)
(* with the punctuation mark that follows it; words are joined by single   *)
(* blanks.  A pattern is a sequence of elements separated by blanks.       *)

Word(x, t, cap) == [w |-> x, t |-> t, cap |-> cap]

\* a sentence: its words, the mark after the last one, a capital first
Sentence(words, mark) ==
    [i \in DOMAIN words |->
        Word(words[i], IF i = Len(words) THEN mark ELSE "", i = 1)]

\* str.lower()
Lower(text) == [i \in DOMAIN text |-> [text[i] EXCEPT !.cap = FALSE]]

\* " ".join(texts)
RECURSIVE Join(_)
Join(texts) == IF texts = <<>> THEN <<>> ELSE texts[1] \o Join(Tail(texts))

\* vocabulary words that contain a pattern word at their start or end
ProperPrefix == {<<"agree", "agreed">>, <<"option", "options">>,
                 <<"plan", "plans">>, <<"payment", "payments">>}
ProperSuffix == {<<"not", "cannot">>}
NumberWords == {"1", "2", "3", "50"}

Alt(alts) == [k |-> "alt", alts |-> alts]
Words(ws) == Alt({<<x>> : x \in ws})
AnyText == [k |-> "any", alts |-> {}]      \* (.*)
Letters == [k |-> "letters", alts |-> {}]  \* [a-z]+ and [a-z ]+
Digit123 == [k |-> "digit", alts |-> {}]   \* [123]

\* a pattern word against a text word; the first word of a pattern may
\* start inside a text word, the last one may end inside it, and a word
\* that is not the last one is followed by a blank
MatchWord(p, tok, isFirst, isLast) ==
    /\ (~isLast => tok.t = "")
    /\ \/ p = tok.w
       \/ isFirst /\ <<p, tok.w>> \in ProperSuffix
       \/ isLast /\ <<p, tok.w>> \in ProperPrefix

MatchAlt(alt, text, pos, firstElem, lastElem) ==
    /\ pos + Len(alt) - 1 <= Len(text)
    /\ \A j \in 1..Len(alt) :
          MatchWord(alt[j], text[pos + j - 1],
                    firstElem /\ j = 1, lastElem /\ j = Len(alt))

RECURSIVE MatchFrom(_, _, _, _)
MatchFrom(elems, i, text, pos) ==
    IF i > Len(elems) THEN TRUE
    ELSE CASE elems[i].k = "alt" ->
                \E alt \in elems[i].alts :
                    /\ MatchAlt(alt, text, pos, i = 1, i = Len(elems))
                    /\ MatchFrom(elems, i + 1, text, pos + Len(alt))
           [] elems[i].k = "any" ->
                IF i = Len(elems) THEN pos <= Len(text)
                ELSE \E q \in (pos + 1)..Len(text) : MatchFrom(elems, i + 1, text, q)
           [] elems[i].k = "letters" ->
                pos <= Len(text) /\ text[pos].w \notin NumberWords
           [] OTHER ->
                pos <= Len(text) /\ text[pos].w \in {"1", "2", "3"}

\* the text words a match of the pattern can begin in
FirstWords(elems) ==
    {alt[1] : alt \in elems[1].alts}
    \cup {ps[2] : ps \in {x \in ProperSuffix : \E alt \in elems[1].alts : x[1] = alt[1]}}
    \cup IF Len(elems) = 1
         THEN {pp[2] : pp \in {x \in ProperPrefix :
                                 \E alt \in elems[1].alts : Len(alt) = 1 /\ x[1] = alt[1]}}
         ELSE {}

\* a pattern: its elements, every one of which begins with a group of words
Pattern(elems) == [elems |-> elems, first |-> FirstWords(elems)]

\* re.search(pattern, text): a match is tried where its first word can be
Search(pat, text) ==
    \E pos \in {p \in 1..Len(text) : text[p].w \in pat.first} :
        MatchFrom(pat.elems, 1, text, pos)

CountMatches(pats, text) == Cardinality({i \in DOMAIN pats : Search(pats[i], text)})

----------------------------------------------------------------------------
(* Conversations (conversation_simulator.py, lines 17-48) *)

Message(role, content) == [role |-> role, content |-> content]
Conversation(messages) == [messages |-> messages]

SelectRole(messages, role) ==
    SelectSeq(messages, LAMBDA m : m.role = role)

Contents(messages) == [i \in DOMAIN messages |-> messages[i].content]

\* messages[-4:]
LastFour(messages) ==
    IF Len(messages) <= 4 THEN messages
    ELSE SubSeq(messages, Len(messages) - 3, Len(messages))

----------------------------------------------------------------------------
(* Resolution score (performance_evaluator.py, lines 203-246) *)

resolution_indicators == <<
    Pattern(<<Words({"agree", "agreed", "accept", "commitment"}), Words({"to", "on"}),
      Words({"payment", "plan"})>>),
    Pattern(<<Words({"will", "can"}), Words({"pay"}), AnyText, Words({"on"}), AnyText>>),
    Pattern(<<Alt({<<"schedule">>, <<"set", "up">>}), Words({"the", "a"}), Words({"payment"})>>),
    Pattern(<<Alt({<<"thank", "you">>, <<"appreciate">>}), Words({"for", "your"}),
      Words({"help", "assistance", "understanding"})>>),
    Pattern(<<Words({"next", "follow-up", "confirmation"}),
      Words({"steps", "process", "email"})>>) >>

non_resolution_indicators == <<
    Pattern(<<Alt({<<"call", "back">>, <<"contact", "you", "later">>,
           <<"think", "about", "it">>})>>),
    Pattern(<<Words({"not", "can't"}), Words({"agree", "accept", "afford"})>>),
    Pattern(<<Alt({<<"need", "more">>, <<"additional">>}), Words({"time", "information"})>>),
    Pattern(<<Words({"unhappy", "dissatisfied"}), Words({"with"})>>),
    Pattern(<<Alt({<<"disconnect">>, <<"hang", "up">>})>>) >>

\* messages[-4:], lower-cased and joined by blanks
last_messages_text(c) ==
    Join([i \in DOMAIN LastFour(c.messages) |-> Lower(LastFour(c.messages)[i].content)])

\* max(0.0, min(1.0, (resolution_points + 3) / 6))
NormalizePoints(points) == RMax(Zero, RMin(One, RNorm(points + 3, 6)))

\* the pattern counts, the raw points and the score of one conversation
ResolutionRun(c) ==
    LET text == last_messages_text(c)
        hits == CountMatches(resolution_indicators, text)
        non_hits == CountMatches(non_resolution_indicators, text)
    IN IF Len(c.messages) < 4
       THEN [short |-> TRUE, hits |-> 0, non_hits |-> 0, resolution_points |-> 0,
             score |-> Zero]
       ELSE [short |-> FALSE, hits |-> hits, non_hits |-> non_hits,
             resolution_points |-> hits - non_hits,
             score |-> NormalizePoints(hits - non_hits)]

_calculate_resolution_score(c) == ResolutionRun(c).score

----------------------------------------------------------------------------
(* Repetition rate (performance_evaluator.py, lines 81-113, 324-339) *)

Terminators == {".", "!", "?"}

\* re.findall(r'[^.!?]+[.!?]', message): the text after the last mark is dropped
RECURSIVE SplitPhrases(_, _, _)
SplitPhrases(text, from, i) ==
    IF i > Len(text) THEN <<>>
    ELSE IF text[i].t \in Terminators
         THEN <<SubSeq(text, from, i)>> \o SplitPhrases(text, i + 1, i + 1)
         ELSE SplitPhrases(text, from, i + 1)

\* phrases of more than five words
SignificantPhrasesOf(message) ==
    SelectSeq(SplitPhrases(message, 1, 1), LAMBDA p : Len(p) > 5)

WordSet(phrase) == Range(Lower(phrase))

_phrase_similarity(phrase1, phrase2) ==
    IF WordSet(phrase1) = {} \/ WordSet(phrase2) = {} THEN Zero
    ELSE RNorm(Cardinality(WordSet(phrase1) \cap WordSet(phrase2)),
               Cardinality(WordSet(phrase1) \cup WordSet(phrase2)))

RECURSIVE significant_phrases(_)
significant_phrases(agent_messages) ==
    IF agent_messages = <<>> THEN <<>>
    ELSE SignificantPhrasesOf(agent_messages[1]) \o significant_phrases(Tail(agent_messages))

\* every pair of an earlier and a later phrase more than 0.7 similar counts
repetition_pairs(phrases) ==
    Cardinality({jk \in (DOMAIN phrases) \X (DOMAIN phrases) :
        /\ jk[1] < jk[2]
        /\ RGt(_phrase_similarity(phrases[jk[2]], phrases[jk[1]]), R(7, 10))})
\* a phrase counts once when some earlier phrase is more than 0.7 similar
repetition_count(phrases) ==
    Cardinality({k \in DOMAIN phrases :
        \E j \in 1..(k - 1) : RGt(_phrase_similarity(phrases[k], phrases[j]), R(7, 10))})

_calculate_repetition_rate(c) ==
    LET agent_messages == Contents(SelectRole(c.messages, "agent"))
        phrases == significant_phrases(agent_messages)
    IN IF Len(agent_messages) <= 1 THEN Zero
       ELSE IF phrases = <<>> THEN Zero
       ELSE RMin(One, RNorm(repetition_count(phrases), Len(phrases)))

----------------------------------------------------------------------------
(* Negotiation effectiveness (performance_evaluator.py, lines 115-201) *)

options_patterns == <<
    Pattern(<<Words({"option", "plan", "alternative"}), Digit123>>),
    Pattern(<<Words({"several", "multiple", "different"}), Words({"options"})>>),
    Pattern(<<Words({"could", "can", "might"}), Words({"offer", "provide", "suggest"})>>) >>

acknowledgment_patterns == <<
    Pattern(<<Words({"understand", "appreciate", "recognize"}), Words({"your", "the"}),
      Words({"concern", "situation", "difficulty"})>>),
    Pattern(<<Words({"sorry", "apologize"}), Words({"to"}), Words({"hear"})>>),
    Pattern(<<Alt({<<"must", "be">>, <<"sounds">>}), Words({"difficult", "challenging", "tough"})>>),
    Pattern(<<Words({"thank"}), Words({"you"}), Words({"for"}), Words({"explaining", "sharing"})>>) >>

alternative_patterns == <<
    Pattern(<<Words({"another", "different", "alternative"}), Words({"option", "approach", "plan"})>>),
    Pattern(<<Words({"instead", "alternatively"})>>),
    Pattern(<<Alt({<<"we", "could">>, <<"we", "can">>, <<"let's">>}), Words({"try", "consider"})>>) >>

benefit_patterns == <<
    Pattern(<<Words({"benefit", "advantage", "help"}), Words({"you", "your"})>>),
    Pattern(<<Alt({<<"this", "way">>, <<"this", "will">>, <<"this", "means">>})>>),
    Pattern(<<Alt({<<"allow", "you", "to">>, <<"enable", "you", "to">>, <<"help", "you">>})>>) >>

closing_patterns == <<
    Pattern(<<Alt({<<"do", "we", "have">>, <<"have", "we", "reached">>}),
      Alt({<<"an", "agreement">>, <<"a", "deal">>})>>),
    Pattern(<<Alt({<<"does", "that">>, <<"is", "this">>}), Words({"work", "acceptable", "agreeable"})>>),
    Pattern(<<Alt({<<"shall", "we">>, <<"should", "we">>}), Alt({<<"proceed">>, <<"move", "forward">>})>>),
    Pattern(<<Alt({<<"confirm">>, <<"agree", "to">>}), Words({"the", "this"}),
      Words({"plan", "arrangement", "payment"})>>) >>

\* every message matches some pattern of the family
EveryMessageMatches(pats, messages) ==
    \A i \in DOMAIN messages : \E j \in DOMAIN pats : Search(pats[j], Lower(messages[i]))
\* some message matches some pattern of the family
AnyMessageMatches(pats, messages) ==
    \E i \in DOMAIN messages : \E j \in DOMAIN pats : Search(pats[j], Lower(messages[i]))

negotiation_elements(agent_messages) ==
    [offers_options |-> AnyMessageMatches(options_patterns, agent_messages),
     acknowledges_concerns |-> AnyMessageMatches(acknowledgment_patterns, agent_messages),
     provides_alternatives |-> AnyMessageMatches(alternative_patterns, agent_messages),
     explains_benefits |-> AnyMessageMatches(benefit_patterns, agent_messages),
     closes_agreement |-> AnyMessageMatches(closing_patterns, agent_messages)]

CountTrue(rec) == Cardinality({k \in DOMAIN rec : rec[k]})

_calculate_negotiation_effectiveness(c) ==
    LET agent_messages == Contents(SelectRole(c.messages, "agent"))
        customer_messages == Contents(SelectRole(c.messages, "customer"))
        elements == negotiation_elements(agent_messages)
    IN IF Len(agent_messages) < 3 \/ Len(customer_messages) < 2 THEN R(1, 2)
       ELSE RNorm(CountTrue(elements), Cardinality(DOMAIN elements))

----------------------------------------------------------------------------
(* Compliance score (performance_evaluator.py, lines 248-322) *)

compliance_patterns ==
    [identifies_self |->
        Pattern(<<Alt({<<"my", "name", "is">>, <<"this", "is">>}), Letters>>),
     states_company |->
        Pattern(<<Alt({<<"calling", "from">>, <<"with">>}), Letters>>),
     states_recording |->
        Pattern(<<Words({"call", "conversation"}),
                  Alt({<<"may", "be">>, <<"is", "being">>}), Words({"recorded"})>>),
     verifies_identity |->
        Pattern(<<Words({"verify", "confirm"}),
                  Words({"your", "identity", "information"})>>),
     explains_purpose |->
        Pattern(<<Words({"regarding", "about", "concerning"}), Words({"your", "the"}),
                  Words({"loan", "account", "payment"})>>)]

compliance_elements(all_agent_text) ==
    [k \in DOMAIN compliance_patterns |-> Search(compliance_patterns[k], all_agent_text)]

\* threatening, harassment, false_statements, in the order of the dictionary
prohibited_language == <<
    Pattern(<<Alt({<<"legal", "action">>, <<"lawsuit">>, <<"court">>, <<"police">>, <<"arrest">>})>>),
    Pattern(<<Alt({<<"must">>, <<"have", "to">>, <<"required", "to">>}), Words({"pay"}),
      Words({"immediately", "now"})>>),
    Pattern(<<Words({"consequences", "penalties"}), Words({"will", "shall"}),
      Words({"occur", "happen", "follow"})>>),
    Pattern(<<Words({"fail", "refuse", "neglect"}), Words({"to"}), Words({"pay"})>>),
    Pattern(<<Words({"irresponsible", "negligent", "delinquent"})>>),
    Pattern(<<Alt({<<"repeatedly">>, <<"continuously">>, <<"again", "and", "again">>})>>),
    Pattern(<<Words({"only", "last", "final"}), Words({"chance", "opportunity"})>>),
    Pattern(<<Words({"guaranteed", "promise"}), Words({"to"}), Words({"remove", "clear", "fix"})>>),
    Pattern(<<Words({"immediately", "instantly"}), Words({"improve", "increase", "raise"})>>) >>

prohibited_count(all_agent_text) == CountMatches(prohibited_language, all_agent_text)

\* compliance_score - prohibited_count * 0.2, without the lower clamp
PenaliseNoClamp(score, hits) == RSub(score, RTimes(hits, R(2, 10)))
\* max(0.0, compliance_score - (prohibited_count * 0.2))
Penalise(score, hits) == RMax(Zero, RSub(score, RTimes(hits, R(2, 10))))

_calculate_compliance_score(c) ==
    LET agent_messages == Contents(SelectRole(c.messages, "agent"))
        all_agent_text == Join([i \in DOMAIN agent_messages |-> Lower(agent_messages[i])])
        elements == compliance_elements(all_agent_text)
    IN IF agent_messages = <<>> THEN Zero
       ELSE Penalise(RNorm(CountTrue(elements), Cardinality(DOMAIN elements)),
                     prohibited_count(all_agent_text))

----------------------------------------------------------------------------
(* evaluate_conversations (performance_evaluator.py, lines 15-58) *)

Scores(conversations, score(_)) ==
    [i \in DOMAIN conversations |-> score(conversations[i])]

Mean(scores) == RDiv(RSum(scores), Len(scores))

turn_count(c) == R(Len(c.messages) \div 2, 1)

\* the score lists evaluate_conversations builds, and the metrics it returns
EvaluationRun(conversations) ==
    LET repetition_scores == Scores(conversations, _calculate_repetition_rate)
        negotiation_scores == Scores(conversations, _calculate_negotiation_effectiveness)
        turn_counts == Scores(conversations, turn_count)
        resolution_runs == Scores(conversations, ResolutionRun)
        resolution_scores == [i \in DOMAIN resolution_runs |-> resolution_runs[i].score]
        compliance_scores == Scores(conversations, _calculate_compliance_score)
    IN [repetition_scores |-> repetition_scores,
        negotiation_scores |-> negotiation_scores,
        turn_counts |-> turn_counts,
        resolution_runs |-> resolution_runs,
        compliance_scores |-> compliance_scores,
        metrics |->
            IF conversations = <<>> THEN ZeroMetrics
            ELSE [repetition_rate |-> Mean(repetition_scores),
                  negotiation_effectiveness |-> Mean(negotiation_scores),
                  average_turn_count |-> Mean(turn_counts),
                  resolution_rate |-> Mean(resolution_scores),
                  compliance_score |-> Mean(compliance_scores)]]

evaluate_conversations(conversations) == EvaluationRun(conversations).metrics

----------------------------------------------------------------------------
(* Evaluation runs: conversations are built turn by turn as                *)
(* simulate_conversation builds them (conversation_simulator.py, lines     *)
(* 118-170: the agent opens, then customer and agent alternate), and the   *)
(* batch is handed to evaluate_conversations (main.py, lines 45-52).       *)

MaxBatch == 2   \* conversations in a batch
MaxMsgs == 5    \* messages in a batch

AgentMessages ==
    [ intro |->
          Sentence(<<"hello", "my", "name", "is", "alex", "calling", "from", "acme",
                         "about", "your", "loan">>, ".")
              \o Sentence(<<"this", "call", "may", "be", "recorded">>, ".")
              \o Sentence(<<"please", "confirm", "your", "identity">>, "."),
      offer |->
          Sentence(<<"i", "understand", "your", "situation", "and", "we", "can", "offer",
                         "option", "1", "or", "a", "different", "plan">>, ".")
              \o Sentence(<<"this", "will", "help", "you">>, ".")
              \o Sentence(<<"does", "that", "work", "for", "you">>, "?"),
      close |->
          Sentence(<<"thank", "you", "for", "understanding">>, ".")
              \o Sentence(<<"i", "will", "set", "up", "a", "payment", "and", "send", "the",
                            "confirmation", "email">>, "."),
      threat |->
          Sentence(<<"you", "must", "pay", "now", "or", "we", "take", "legal", "action">>, ".")
              \o Sentence(<<"this", "is", "your", "final", "chance">>, "!") ]

CustomerMessages ==
    [ agree |->
          Sentence(<<"i", "agreed", "to", "payment", "and", "will", "pay", "50", "on",
                         "friday">>, "."),
      refuse |->
          Sentence(<<"i", "can't", "afford", "it", "and", "need", "more", "time", "to",
                         "think", "about", "it">>, "."),
      angry |->
          Sentence(<<"i", "am", "unhappy", "with", "this", "and", "will", "hang", "up">>, ".") ]

RECURSIVE TotalMessages(_)
TotalMessages(conversations) ==
    IF conversations = <<>> THEN 0
    ELSE Len(conversations[1].messages) + TotalMessages(Tail(conversations))

\* Conversation.add_message on the conversation being simulated
add_message(conversations, role, content) ==
    [conversations EXCEPT ![Len(conversations)].messages =
        Append(@, Message(role, content))]

InitEval ==
    /\ scripts = <<>> /\ dicts = <<>> /\ secs = <<>> /\ lists = <<>>
    /\ store = EmptyWorld.store /\ roots = {} /\ snap = <<>>
    /\ last = NoCall /\ calls = 0
    /\ fbIn = FbIdle /\ fbOut = FbNone
    /\ batch = <<>> /\ evalOut = EvalNone
    /\ sim = SimIdle
    /\ session = NoSession

StartConversation ==
    /\ ~evalOut.done
    /\ Len(batch) < MaxBatch
    /\ batch' = Append(batch, Conversation(<<>>))
    /\ UNCHANGED <<scriptVars, fbVars, evalOut, loopVars, simVars>>

AgentSpeaks(content) ==
    /\ ~evalOut.done
    /\ batch # <<>>
    /\ TotalMessages(batch) < MaxMsgs
    /\ Len(batch[Len(batch)].messages) % 2 = 0
    /\ batch' = add_message(batch, "agent", content)
    /\ UNCHANGED <<scriptVars, fbVars, evalOut, loopVars, simVars>>

CustomerSpeaks(content) ==
    /\ ~evalOut.done
    /\ batch # <<>>
    /\ TotalMessages(batch) < MaxMsgs
    /\ Len(batch[Len(batch)].messages) % 2 = 1
    /\ batch' = add_message(batch, "customer", content)
    /\ UNCHANGED <<scriptVars, fbVars, evalOut, loopVars, simVars>>

Evaluate ==
    /\ ~evalOut.done
    /\ evalOut' = [done |-> TRUE, run |-> EvaluationRun(batch)]
    /\ UNCHANGED <<scriptVars, fbVars, batch, loopVars, simVars>>

NextEval ==
    \/ StartConversation
    \/ \E content \in Range(AgentMessages) : AgentSpeaks(content)
    \/ \E content \in Range(CustomerMessages) : CustomerSpeaks(content)
    \/ Evaluate

SpecEval == InitEval /\ [][NextEval]_vars

----------------------------------------------------------------------------
(* Properties of the metric engine, checked under SpecEval *)

MetricKeys ==
    {"repetition_rate", "negotiation_effectiveness", "average_turn_count",
     "resolution_rate", "compliance_score"}

ScoreKeys == MetricKeys \ {"average_turn_count"}

RECURSIVE HalfLengthSum(_)
HalfLengthSum(conversations) ==
    IF conversations = <<>> THEN 0
    ELSE (Len(conversations[1].messages) \div 2) + HalfLengthSum(Tail(conversations))

\* C9: evaluate_conversations returns a record with exactly the five metric
\* keys; the four scores other than average_turn_count lie in [0, 1];
\* average_turn_count is the mean of len(messages) // 2 over the batch; for
\* the empty batch all five values are 0.
C9_EvaluationMetrics ==
    evalOut.done =>
        LET m == evalOut.run.metrics
        IN /\ DOMAIN m = MetricKeys
           /\ \A k \in ScoreKeys : RLe(Zero, m[k]) /\ RLe(m[k], One)
           /\ batch # <<>> =>
                m.average_turn_count.n * Len(batch)
                    = m.average_turn_count.d * HalfLengthSum(batch)
           /\ batch = <<>> => \A k \in MetricKeys : REq(m[k], Zero)

\* a batch of two conversations was evaluated, the first of odd length and
\* with prohibited language that costs more than its compliance elements
\* earn, and one mean lies strictly between 0 and 1
C9_Witness ==
    /\ evalOut.done /\ Len(batch) = 2
    /\ Len(batch[1].messages) = 3
    /\ batch[1].messages[1].content = AgentMessages.threat
    /\ REq(evalOut.run.compliance_scores[1], Zero)
    /\ RLt(Zero, evalOut.run.metrics.compliance_score)
    /\ RLt(evalOut.run.metrics.compliance_score, One)
    /\ REq(evalOut.run.metrics.average_turn_count, One)

\* the words of the last four messages
LastFourWords(c) ==
    [i \in DOMAIN last_messages_text(c) |-> last_messages_text(c)[i].w]

\* (points + 3) / 6 clamped to [0, 1]
ClampedScore(points) ==
    IF points + 3 <= 0 THEN Zero
    ELSE IF points + 3 >= 6 THEN One
    ELSE R(points + 3, 6)

\* C10: the resolution score of a conversation is 0 when it has fewer than
\* four messages; otherwise the raw points (resolution patterns matched in
\* the last four messages minus non-resolution patterns matched there) lie
\* in -3..3, the score is (points + 3) / 6 clamped to [0, 1], and a
\* conversation whose last four messages say "agreed to payment" and match
\* no non-resolution pattern scores at least 4/6.
C10_ResolutionScore ==
    evalOut.done =>
        \A i \in DOMAIN batch :
            LET c == batch[i]
                r == evalOut.run.resolution_runs[i]
            IN IF Len(c.messages) < 4 THEN REq(r.score, Zero)
               ELSE /\ r.resolution_points = r.hits - r.non_hits
                    /\ r.resolution_points \in -3..3
                    /\ REq(r.score, ClampedScore(r.resolution_points))
                    /\ (Contains(LastFourWords(c), <<"agreed", "to", "payment">>)
                            /\ r.non_hits = 0
                        => RLe(R(4, 6), r.score))

\* the agent's and the customer's messages of a conversation
AgentContents(c) == Contents(SelectRole(c.messages, "agent"))
CustomerContents(c) == Contents(SelectRole(c.messages, "customer"))

NegotiationFamilies ==
    <<options_patterns, acknowledgment_patterns, alternative_patterns,
      benefit_patterns, closing_patterns>>

\* the negotiation behaviours that some agent message shows
BehavioursDetected(c) ==
    {f \in DOMAIN NegotiationFamilies :
        \E i \in DOMAIN AgentContents(c) :
            \E j \in DOMAIN NegotiationFamilies[f] :
                Search(NegotiationFamilies[f][j], Lower(AgentContents(c)[i]))}

\* C11: the negotiation effectiveness of a conversation is exactly 0.5 when
\* it has fewer than 3 agent messages or fewer than 2 customer messages,
\* whatever the messages say; otherwise it is k/5, k being the number of the
\* five negotiation behaviours that at least one agent message shows.
C11_NegotiationEffectiveness ==
    evalOut.done =>
        \A i \in DOMAIN batch :
            LET c == batch[i]
                score == evalOut.run.negotiation_scores[i]
            IN IF Len(AgentContents(c)) < 3 \/ Len(CustomerContents(c)) < 2
               THEN score = R(1, 2)
               ELSE score.n * 5 = score.d * Cardinality(BehavioursDetected(c))

\* three agent messages and two customer messages, two of the agent messages
\* showing all five behaviours: the score is 5/5, each behaviour counted once
C11_Witness ==
    /\ evalOut.done /\ Len(batch) = 1
    /\ Len(batch[1].messages) = 5
    /\ batch[1].messages[1].content = AgentMessages.intro
    /\ batch[1].messages[3].content = AgentMessages.offer
    /\ batch[1].messages[5].content = AgentMessages.offer
    /\ Cardinality(BehavioursDetected(batch[1])) = 5
    /\ REq(evalOut.run.negotiation_scores[1], One)

\* the lower-cased agent messages joined by blanks
AllAgentText(c) ==
    Join([i \in DOMAIN AgentContents(c) |-> Lower(AgentContents(c)[i])])

\* the places of a text where a match of the pattern begins
Occurrences(pat, text) ==
    {pos \in {p \in 1..Len(text) : text[p].w \in pat.first} :
        MatchFrom(pat.elems, 1, text, pos)}

RECURSIVE ProhibitedOccurrences(_, _)
ProhibitedOccurrences(pats, text) ==
    IF pats = <<>> THEN 0
    ELSE Cardinality(Occurrences(pats[1], text))
            + ProhibitedOccurrences(Tail(pats), text)

\* C12: the compliance score of a conversation is 0 when it has no agent
\* message; otherwise it is max(0, present/5 - 0.2 * hits), present being the
\* number of required compliance elements found in the joined agent text and
\* hits the number of occurrences of prohibited-language patterns in it, every
\* occurrence penalised; all five elements and no prohibited phrase give 1.
C12_CompliancePenalty ==
    evalOut.done =>
        \A i \in DOMAIN batch :
            LET c == batch[i]
                score == evalOut.run.compliance_scores[i]
                text == AllAgentText(c)
                present == Cardinality({k \in DOMAIN compliance_patterns :
                                           Search(compliance_patterns[k], text)})
                hits == ProhibitedOccurrences(prohibited_language, text)
            IN IF AgentContents(c) = <<>> THEN REq(score, Zero)
               ELSE /\ REq(score, IF present <= hits THEN Zero
                                  ELSE R(present - hits, 5))
                    /\ (present = 5 /\ hits = 0 => REq(score, One))

\* the agent's phrases of more than five words, in message order
AgentPhrases(c) == significant_phrases(AgentContents(c))

\* the Jaccard similarity of the two word sets exceeds 0.7
MoreThan70PercentAlike(p, q) ==
    10 * Cardinality(WordSet(p) \cap WordSet(q))
        > 7 * Cardinality(WordSet(p) \cup WordSet(q))

\* the phrases that resemble at least one earlier phrase
RepeatedPhrases(phrases) ==
    {k \in DOMAIN phrases :
        \E j \in 1..(k - 1) : MoreThan70PercentAlike(phrases[k], phrases[j])}

\* some phrase of more than five words occurs verbatim in two agent messages
SameSentenceInTwoMessages(c) ==
    \E a, b \in DOMAIN AgentContents(c) :
        /\ a # b
        /\ \E p \in Range(SignificantPhrasesOf(AgentContents(c)[a])) :
               p \in Range(SignificantPhrasesOf(AgentContents(c)[b]))

----------------------------------------------------------------------------
(* Further properties of improve_script, checked under Spec *)

SectionIds(val) == {val.sections[i][1] : i \in DOMAIN val.sections}

SectionOf(val, id) ==
    val.sections[CHOOSE i \in DOMAIN val.sections : val.sections[i][1] = id][2]

\* the entries of additional_sections_needed with a name and a content
NamedEntries(fb) ==
    {i \in DOMAIN fb.additional_sections_needed.items :
        LET e == fb.additional_sections_needed.items[i]
        IN e.shape = "dict" /\ "name" \in e.has /\ "content" \in e.has}

\* a script value after the first pass of the rule-based edit alone
ImprovementsOnly(val, fb) ==
    LET w0 == DebtCollectionScript(EmptyWorld, val.script_id, val.version,
                                   val.description, val.sections)
        w1 == _apply_section_improvements(w0, w0.ret, fb)
    IN IF w1.exc # NoExc THEN NoScript ELSE ScriptValue(w1, w0.ret)

\* C14: when the rule-based edit adds sections, every entry of
\* additional_sections_needed with a name and a content is stored under an
\* id the script did not have yet, so the number of sections grows by the
\* number of such entries and every section the script had keeps the
\* content the first pass of the edit gave it.
C14_UniqueSectionIds ==
    (Returned /\ last.path = "rule") =>
        /\ Cardinality(SectionIds(After))
              = Cardinality(SectionIds(Before)) + Cardinality(NamedEntries(last.fb))
        /\ \A id \in SectionIds(Before) :
              SectionOf(After, id).content
                  = SectionOf(ImprovementsOnly(Before, last.fb), id).content

\* C15: improve_script never deletes a section: by either strategy and on
\* the fallback paths, the section ids of the returned script include all
\* section ids of the input script, so the id set only grows along a chain.
C15_SectionsNeverDeleted ==
    Returned => SectionIds(Before) \subseteq SectionIds(After)

\* the second improvement of a chain, by the model-assisted rewrite, added a
\* section to a script that the first improvement had already extended
C15_Witness ==
    /\ Returned /\ calls = 2 /\ last.cur # 1 /\ last.path = "api"
    /\ SectionIds(snap[1]) \subseteq SectionIds(Before)
    /\ SectionIds(snap[1]) # SectionIds(Before)
    /\ SectionIds(After) # SectionIds(Before)

\* the same call with a store that accepts the write
WithWorkingStore ==
    improve_script(World, last.cur, last.fb, [last.env EXCEPT !.storeOk = TRUE])

\* C16: when the store write fails while improve_script persists its
\* result, save_script reports failure instead of raising, and improve_script
\* returns the script it returns when the write succeeds.
C16_PersistenceFailureTolerated ==
    (Called /\ ~last.env.storeOk) =>
        /\ last.exc = WithWorkingStore.exc
        /\ Returned =>
              /\ After = ScriptValue(WithWorkingStore, WithWorkingStore.ret)
              /\ Len(last.saves) = 1 /\ ~last.saves[1].ok

\* the store failed under a model-assisted rewrite that changed the script
C16_Witness ==
    /\ Returned /\ ~last.env.storeOk /\ last.path = "api"
    /\ Len(last.saves) = 1 /\ ~last.saves[1].ok
    /\ After # Before
    /\ ~DictHas(store, last.saves[1].key)

\* C17: a snapshot written under a version-qualified key is never
\* overwritten later with a script of different content, whatever sequence
\* of improve_script calls is made (two calls on the same input version with
\* different directives included): no two distinct script values are ever
\* persisted under one key.
C17_SnapshotsImmutable ==
    [][\A i \in DOMAIN store :
          /\ DictHas(store', store[i][1])
          /\ DictGet(store', store[i][1]) = store[i][2]]_vars

----------------------------------------------------------------------------
(* The improvement loop: main() of the command line, and the two buttons of
   the dashboard.  An evaluation cycle yields metrics and, from them, a
   directive; the directive is handed to improve_script. *)

\* METRICS_THRESHOLD_REPETITION and METRICS_THRESHOLD_NEGOTIATION
Thresholds == [repetition |-> R(2, 10), negotiation |-> R(7, 10)]

\* the test of main() that ends the loop
ThresholdsEither(m) ==
    \/ RLe(m.repetition_rate, Thresholds.repetition)
    \/ RLe(Thresholds.negotiation, m.negotiation_effectiveness)
ThresholdsMet(m) ==
    /\ RLe(m.repetition_rate, Thresholds.repetition)
    /\ RLe(Thresholds.negotiation, m.negotiation_effectiveness)

\* metrics an evaluation cycle can report: below both thresholds, meeting
\* both, meeting both exactly, meeting one of them; the last two make the
\* rule-based synthesizer ask for one new section each
LoopMetrics ==
    {SampleMetrics.scenario, SampleMetrics.poor, SampleMetrics.good,
     Metrics(R(2, 10), R(7, 10), R(1, 1), R(1, 1)),
     Metrics(R(2, 10), R(6, 10), R(1, 1), R(1, 1)),
     Metrics(R(4, 10), R(3, 10), R(4, 10), R(9, 10)),
     Metrics(R(4, 10), R(5, 10), R(2, 10), R(7, 10))}

\* answers of the generation capability during one synthesis
SynthesisReplies == {<<Reply1.ok, Reply2.ok>>, <<Reply1.error, Reply2.error>>}

\* the dashboard enables its buttons only when an API key is provided
DashboardEnvs == {Env(TRUE, SampleResponse.error, TRUE),
                  Env(TRUE, SampleResponse.rewrite, TRUE)}
CliEnvs == {Env(FALSE, SampleResponse.error, TRUE),
            Env(TRUE, SampleResponse.rewrite, TRUE)}

VersionOf(a) == ScriptValue(World, a).version

\* one use of a directive by improve_script: the cycle that produced it, the
\* script version that cycle evaluated, the version handed to improve_script,
\* and whether an API key was set
Use(fb, a, env) ==
    [cycle |-> fb.cycle, evaluated |-> fb.version, improved |-> VersionOf(a),
     api_key |-> env.api_key]

InitLoop ==
    /\ LET w == load_base_script(EmptyWorld, V(1, 0))
       IN /\ scripts = w.scripts /\ dicts = w.dicts
          /\ secs = w.secs /\ lists = w.lists
          /\ \E mode \in {"cli", "dashboard"} :
                session = [NoSession EXCEPT !.mode = mode, !.pc = "running",
                                            !.current_script = w.ret]
    /\ store = <<>> /\ roots = {} /\ snap = <<>>
    /\ last = NoCall /\ calls = 0
    /\ fbIn = FbIdle /\ fbOut = FbNone
    /\ batch = <<>> /\ evalOut = EvalNone
    /\ sim = SimIdle

\* "Run Test Iteration": evaluate the current script, keep the directive
RunTestIteration(m, replies) ==
    /\ session.mode = "dashboard"
    /\ session.cycles < MaxCycles
    /\ session' = [session EXCEPT
          !.cycles = @ + 1,
          !.evals = @ + 1,
          !.latest_metrics = m,
          !.latest_feedback =
              [cycle |-> session.cycles + 1,
               version |-> VersionOf(session.current_script),
               directive |-> generate_improvement_feedback(TRUE, m, replies[1], replies[2])]]
    /\ UNCHANGED <<scriptVars, fbVars, evalVars, simVars>>

\* "Improve Script": improve the current script with the kept directive; an
\* exception is reported and the session is left as it was
ImproveClick(env) ==
    /\ session.mode = "dashboard"
    /\ session.latest_feedback.cycle # 0
    /\ calls < MaxCalls
    /\ \E w \in {improve_script(World, session.current_script,
                                 session.latest_feedback.directive, env)} :
         /\ scripts' = w.scripts /\ dicts' = w.dicts
         /\ secs' = w.secs /\ lists' = w.lists
         /\ store' = w.store
         /\ session' = [session EXCEPT
               !.current_script = IF w.exc = NoExc THEN w.ret ELSE @,
               !.used = Append(@, Use(session.latest_feedback, session.current_script, env))]
    /\ calls' = calls + 1
    /\ UNCHANGED <<roots, snap, last, fbVars, evalVars, simVars>>

\* one pass of the while loop of main(): evaluate, stop when the thresholds
\* are met, else synthesize a directive and improve with it; cycles is
\* current_iteration and MaxCycles is max_iterations
CliIteration(m, replies, env) ==
    /\ session.mode = "cli"
    /\ session.pc = "running"
    /\ session.cycles < MaxCycles
    /\ IF ThresholdsMet(m)
       THEN /\ session' = [session EXCEPT !.pc = "done", !.evals = @ + 1,
                                          !.latest_metrics = m]
            /\ UNCHANGED scriptVars
       ELSE LET fb == [cycle |-> session.cycles + 1,
                       version |-> VersionOf(session.current_script),
                       directive |-> generate_improvement_feedback(
                                         env.api_key, m, replies[1], replies[2])]
            IN \E w \in {improve_script(World, session.current_script, fb.directive, env)} :
                 /\ scripts' = w.scripts /\ dicts' = w.dicts
                 /\ secs' = w.secs /\ lists' = w.lists
                 /\ store' = w.store
                 /\ calls' = calls + 1
                 /\ session' = [session EXCEPT
                       !.evals = @ + 1,
                       !.latest_metrics = m,
                       !.pc = IF w.exc = NoExc THEN @ ELSE "crashed",
                       !.current_script = IF w.exc = NoExc THEN w.ret ELSE @,
                       !.cycles = IF w.exc = NoExc THEN @ + 1 ELSE @,
                       !.used = Append(@, Use(fb, session.current_script, env))]
                 /\ UNCHANGED <<roots, snap, last>>
    /\ UNCHANGED <<fbVars, evalVars, simVars>>

\* the while condition fails: main() returns its result
CliReturn ==
    /\ session.mode = "cli"
    /\ session.pc = "running"
    /\ ~(session.cycles < MaxCycles)
    /\ session' = [session EXCEPT !.pc = "done"]
    /\ UNCHANGED <<scriptVars, fbVars, evalVars, simVars>>

\* a step of main()
CliStep ==
    \/ \E m \in LoopMetrics, replies \in SynthesisReplies, env \in CliEnvs :
          CliIteration(m, replies, env)
    \/ CliReturn

NextLoop ==
    \/ \E m \in Range(SampleMetrics), replies \in SynthesisReplies :
          RunTestIteration(m, replies)
    \/ \E env \in DashboardEnvs : ImproveClick(env)
    \/ CliStep

SpecLoop == InitLoop /\ [][NextLoop]_vars

\* every call made by main() returns, so its loop keeps taking steps
SpecLoopFair == SpecLoop /\ WF_vars(CliStep)

\* C18: every directive is consumed by improve_script exactly once -- no two
\* improve_script calls of a loop use the directive of the same evaluation
\* cycle -- and each call improves the script version that cycle evaluated
C18_DirectiveConsumedOnce ==
    /\ \A i, j \in DOMAIN session.used :
          i # j => session.used[i].cycle # session.used[j].cycle
    /\ \A i \in DOMAIN session.used :
          session.used[i].evaluated = session.used[i].improved

\* the command-line loop alone uses each directive once
CliDirectiveConsumedOnce == session.mode = "cli" => C18_DirectiveConsumedOnce

----------------------------------------------------------------------------
(* The end-to-end scenario of improve_script, checked under Spec *)

DefaultScript ==
    LET w == load_base_script(EmptyWorld, V(1, 0)) IN ScriptValue(w, w.ret)

\* the question about a payment today, later followed by the question how
\* much: the pair of phrases the repetition transform is written to merge
PhrasePair(content) ==
    \E i, j \in DOMAIN content :
        i < j /\ content[i] = ScriptText.today /\ content[j] = ScriptText.howmuch

ScenarioRun ==
    /\ Returned /\ ~last.env.api_key
    /\ Before = DefaultScript
    /\ last.fb = SampleDirective.scenario

\* C19: without a generation capability, improving the default script 1.0
\* with the rule-based directive for metrics 0.4/0.5/0.4/0.9 returns version
\* 1.1, payment_discussion.description is the old description followed by an
\* "Improved:" entry, and payment_discussion.content no longer contains the
\* pair of phrases the repetition transform targets
C19_EndToEndScenario ==
    ScenarioRun =>
        LET old == SectionOf(Before, "payment_discussion")
            new == SectionOf(After, "payment_discussion")
        IN /\ After.version = V(1, 1)
           /\ \E i \in DOMAIN last.fb.section_improvements.items :
                 LET item == last.fb.section_improvements.items[i]
                 IN /\ item[1] = "payment_discussion"
                    /\ new.description =
                           old.description \o <<NL, "Improved: ">> \o item[2].text
           /\ ~PhrasePair(new.content)

\* the parts of the scenario the code delivers: version and description
ScenarioVersionAndDescription ==
    ScenarioRun =>
        LET old == SectionOf(Before, "payment_discussion")
            new == SectionOf(After, "payment_discussion")
        IN /\ After.version = V(1, 1)
           /\ SubSeq(new.description, 1, Len(old.description) + 2)
                  = old.description \o <<NL, "Improved: ">>
           /\ PhrasePair(new.content)

----------------------------------------------------------------------------
(* Loading a persisted script (debt_collection_agent.py, lines 61-76),
   checked under Spec *)

\* the one path load_base_script reads
script_path == <<"base_script.json">>

\* DebtCollectionScript(**script_data): every text field of the document
\* must be a string
Validates(val) ==
    \A i \in DOMAIN val.sections :
        LET sec == val.sections[i][2]
        IN sec.content # NonStr /\ sec.description # NonStr

\* load_base_script() over a store: the document under script_path when it
\* exists and validates, else the default script
load_stored_script(st) ==
    IF DictHas(st, script_path) /\ Validates(DictGet(st, script_path))
    THEN DictGet(st, script_path)
    ELSE DefaultScript

SameScript(x, y) ==
    /\ x.script_id = y.script_id /\ x.version = y.version
    /\ x.description = y.description
    /\ SectionIds(x) = SectionIds(y)
    /\ \A id \in SectionIds(x) :
          LET s == SectionOf(x, id)  t == SectionOf(y, id)
          IN /\ s.name = t.name /\ s.description = t.description
             /\ s.content = t.content /\ s.next_sections = t.next_sections

\* save_script(script, "base_script.json") followed by load_base_script()
BaseRoundTrip(a) ==
    load_stored_script(save_script(World, a, script_path, TRUE).store)

\* the scripts the last improve_script call persisted
Persisted == {i \in DOMAIN last.saves : last.saves[i].ok}

\* C20: a script saved and then loaded back from the key it was saved under
\* is the same script (script_id, version, description, section ids, and each
\* section's name, description, content and next_sections); so is every
\* script version improve_script persisted
C20_PersistenceRoundTrip ==
    /\ \A a \in roots : SameScript(BaseRoundTrip(a), snap[a])
    /\ \A i \in Persisted :
          /\ DictHas(store, last.saves[i].key)
          /\ SameScript(load_stored_script(store), DictGet(store, last.saves[i].key))

\* the round trip under the path load_base_script reads, for scripts whose
\* text fields are strings
BaseRoundTripOfValidScripts ==
    \A a \in roots : Validates(snap[a]) => SameScript(BaseRoundTrip(a), snap[a])

\* a script with a content that is not a string does not survive it
BaseRoundTripLosesInvalidScripts ==
    \A a \in roots : ~Validates(snap[a]) => BaseRoundTrip(a) = DefaultScript

InvalidScriptReached == \E a \in roots : ~Validates(snap[a])

----------------------------------------------------------------------------
(* The rule-based edit in detail, checked under Spec *)

\* the (section_id, improvement) pairs of a directive, free text or
\* structured patch, whose section exists in the script
ApplicablePairs(val, fb, shapes) ==
    {i \in DOMAIN fb.section_improvements.items :
        /\ fb.section_improvements.items[i][1] \in SectionIds(val)
        /\ fb.section_improvements.items[i][2].shape \in shapes}

\* the description continues the old one with an "Improved: ..." entry
DescriptionAppended(old, new) ==
    /\ Len(new) > Len(old) + 2
    /\ SubSeq(new, 1, Len(old) + 2) = old \o <<NL, "Improved: ">>

DescriptionLogKept(shapes) ==
    (Returned /\ last.path = "rule") =>
        \A i \in ApplicablePairs(Before, last.fb, shapes) :
            LET id == last.fb.section_improvements.items[i][1]
            IN DescriptionAppended(SectionOf(Before, id).description,
                                   SectionOf(After, id).description)

\* C21: in the rule-based edit, for every pair of the directive whose section
\* exists, free text or structured patch, the section's description afterwards
\* is the previous description followed by an "Improved: ..." entry
C21_DescriptionAppendOnly == DescriptionLogKept({"str", "dict"})

\* for free-text improvements the description is an append-only log
DescriptionLogOfFreeText == DescriptionLogKept({"str"})

\* the next_sections of section id of the script object a in world w
EdgesOf(w, a, id) == w.lists[w.secs[SecAddr(w, a, id)].next_sections]

Count(x, seq) == Cardinality({i \in DOMAIN seq : seq[i] = x})

NoDuplicates(seq) == \A i, j \in DOMAIN seq : i # j => seq[i] # seq[j]

\* the sources the rule-based edit wires from, and one that does not exist
EdgeSources == {"payment_discussion", "hardship_options", "no_such_section"}
EdgeTargets(a) == SectionIds(snap[a]) \cup {"no_such_section"}

\* C22 as stated: inserting an edge any number of times leaves exactly one
\* occurrence of the target in the source's next_sections, and changes
\* nothing when the source or the target does not exist; no next_sections
\* list of a script ever holds the same id twice
C22_EdgeWiringIdempotent ==
    \A a \in roots :
        /\ \A id \in SectionIds(snap[a]) : NoDuplicates(EdgesOf(World, a, id))
        /\ \A src \in EdgeSources, tgt \in EdgeTargets(a) :
              LET once == _update_section_flow(World, a, src, tgt)
                  twice == _update_section_flow(once, a, src, tgt)
              IN /\ twice = once
                 /\ IF HasSection(World, a, src) /\ HasSection(World, a, tgt)
                    THEN Count(tgt, EdgesOf(once, a, src)) = 1
                    ELSE once = World

\* the next_sections lists a directive supplies for its new sections
SuppliedLists(fb) ==
    {fb.additional_sections_needed.items[i].next_sections : i \in
        {j \in NamedEntries(fb) :
            "next_sections" \in fb.additional_sections_needed.items[j].has}}

\* C22, amended: inserting an edge any number of times equals inserting it
\* once, adds the target only when it is absent, and changes nothing when the
\* source or the target does not exist; after a rule-based edit a
\* next_sections list names an id twice only if the directive supplied that
\* list or the input script already held the duplicate
C22_EdgeInsertionIdempotent ==
    /\ \A a \in roots : \A src \in EdgeSources, tgt \in EdgeTargets(a) :
          LET once == _update_section_flow(World, a, src, tgt)
              twice == _update_section_flow(once, a, src, tgt)
          IN /\ twice = once
             /\ IF HasSection(World, a, src) /\ HasSection(World, a, tgt)
                THEN LET before == Count(tgt, EdgesOf(World, a, src))
                     IN Count(tgt, EdgesOf(once, a, src))
                            = IF before = 0 THEN 1 ELSE before
                ELSE once = World
    /\ (Returned /\ last.path = "rule") =>
          \A id \in SectionIds(After) :
              LET new == SectionOf(After, id).next_sections
              IN \/ NoDuplicates(new)
                 \/ new \in SuppliedLists(last.fb)
                 \/ /\ id \in SectionIds(Before)
                    /\ ~NoDuplicates(SectionOf(Before, id).next_sections)

\* a second addition under an id that is already wired: the edge from
\* payment_discussion is there once
C22_Witness ==
    /\ Returned /\ calls = 2 /\ last.path = "rule"
    /\ Cardinality(SectionIds(After)) = Cardinality(SectionIds(Before))
    /\ NamedEntries(last.fb) # {}
    /\ \E id \in SectionIds(After) \ SectionIds(DefaultScript) :
          Count(id, SectionOf(After, "payment_discussion").next_sections) = 1

\* "word" in section_id, for an id with or without a "_<count>" suffix
IdContains(id, word) ==
    \E base \in IdHas[word] :
        \/ id = base
        \/ \E n \in 1..20 : id = base \o "_" \o ToString(n)

\* the sections of the returned script that the rule-based edit created from
\* an entry of the directive
AddedIds ==
    {id \in SectionIds(After) :
        /\ \E i \in NamedEntries(last.fb) :
              LET e == last.fb.additional_sections_needed.items[i]
              IN /\ SectionOf(After, id).name = e.name
                 /\ SectionOf(After, id).content = e.content
        /\ id \in SectionIds(Before) => SectionOf(Before, id) # SectionOf(After, id)}

\* the added sections the code wires from src
WiredFrom(src) ==
    {s \in AddedIds :
        \/ IdContains(s, "objection")
        \/ src = "payment_discussion"
           /\ (IdContains(s, "payment") \/ IdContains(s, "option"))}

IsPrefix(p, q) == Len(p) <= Len(q) /\ SubSeq(q, 1, Len(p)) = p

----------------------------------------------------------------------------
(* Termination of the command-line loop, checked under SpecLoopFair *)

InCli == session.mode = "cli"

\* repetition_rate at or below its threshold and negotiation_effectiveness at
\* or above its threshold
WithinThresholds(m) ==
    /\ ~RLt(Thresholds.repetition, m.repetition_rate)
    /\ ~RLt(m.negotiation_effectiveness, Thresholds.negotiation)

LoopBudgetKept ==
    InCli =>
        /\ calls <= MaxCycles
        /\ session.pc # "crashed" => session.cycles = calls
        /\ session.pc = "done" =>
              /\ VersionOf(session.current_script) = V(1, calls)
              /\ session.cycles < MaxCycles =>
                    session.evals > 0 /\ WithinThresholds(session.latest_metrics)

StopsAtOnce ==
    (InCli /\ session'.evals = session.evals + 1
           /\ WithinThresholds(session'.latest_metrics)) =>
        (calls' = calls /\ session'.pc = "done")

\* C24: the loop makes at most max_iterations calls to improve_script and
\* then stops; an iteration whose metrics satisfy the thresholds stops it at
\* once without a call; the iteration count reported equals the number of
\* calls made and the final version is 1.0 plus one tenth per call
C24_LoopTerminates ==
    /\ []LoopBudgetKept
    /\ [][StopsAtOnce]_vars
    /\ InCli ~> (session.pc \in {"done", "crashed"})

\* the budget was used up and main() returned
C24_Witness ==
    /\ InCli /\ session.pc = "done"
    /\ calls = MaxCycles /\ session.cycles = MaxCycles
    /\ VersionOf(session.current_script) = V(1, MaxCycles)
    /\ ~WithinThresholds(session.latest_metrics)

----------------------------------------------------------------------------
(* simulate_conversation (conversation_simulator.py, lines 89-184) as a
   state machine: one step per answer of the generation capability *)

MaxTurns == 3    \* largest max_turns of a simulation

\* what the capability answers: nothing, an ordinary sentence, a sentence
\* with one of the end phrases
SimReplies == {"", "I need some time to think about this.", "goodbye"}

end_phrases == {"goodbye"}

\* the content of the starting section with its placeholders filled in, and
\* the greeting used when the script has no section
FirstMessages == {"Hello, my name is AI Agent", "Hello, this is regarding your past-due account"}

_should_end_conversation(message, turn, max_turns) ==
    message \in end_phrases \/ turn >= max_turns - 1

\* a finish() that does not record the end time
finish_forgotten(s) == s
\* Conversation.finish()
finish(s) ==
    [s EXCEPT !.end_times = Append(@, Len(s.conversations[1].messages))]

Say(s, role, content) ==
    [s EXCEPT !.conversations = add_message(@, role, content)]

Return(s) == [finish(s) EXCEPT !.pc = "returned"]

InitSim ==
    /\ scripts = <<>> /\ dicts = <<>> /\ secs = <<>> /\ lists = <<>>
    /\ store = <<>> /\ roots = {} /\ snap = <<>>
    /\ last = NoCall /\ calls = 0
    /\ fbIn = FbIdle /\ fbOut = FbNone
    /\ batch = <<>> /\ evalOut = EvalNone
    /\ session = NoSession
    /\ sim = SimIdle

\* the call: without an API key the dummy conversation is returned
SimStart(api_key, max_turns) ==
    /\ sim.pc = "idle"
    /\ LET s == [sim EXCEPT !.api_key = api_key, !.max_turns = max_turns,
                            !.conversations = <<Conversation(<<>>)>>]
       IN sim' = IF ~api_key
                 THEN Return(Say(Say(s, "agent", "Hello, this is a debt collection agent."),
                                 "customer", "I can't pay right now."))
                 ELSE [s EXCEPT !.pc = "first"]
    /\ UNCHANGED <<scriptVars, fbVars, evalVars, loopVars>>

\* the first agent message, from the starting section or the greeting
SimFirstMessage(first_message) ==
    /\ sim.pc = "first"
    /\ sim' = [Say(sim, "agent", first_message) EXCEPT
                 !.pc = IF 0 < sim.max_turns THEN "customer" ELSE "finish"]
    /\ UNCHANGED <<scriptVars, fbVars, evalVars, loopVars>>

\* the head of the loop body: the customer's answer
SimCustomerTurn(customer_response) ==
    /\ sim.pc = "customer"
    /\ sim' = IF customer_response # ""
              THEN [Say(sim, "customer", customer_response) EXCEPT
                      !.pc = IF _should_end_conversation(customer_response,
                                                         sim.turn, sim.max_turns)
                             THEN "finish" ELSE "agent"]
              ELSE [sim EXCEPT !.pc = "finish"]
    /\ UNCHANGED <<scriptVars, fbVars, evalVars, loopVars>>

\* the rest of the loop body: the agent's answer, then the next turn
SimAgentTurn(agent_response) ==
    /\ sim.pc = "agent"
    /\ LET s == IF agent_response # "" THEN Say(sim, "agent", agent_response) ELSE sim
           stop == /\ agent_response # ""
                   /\ _should_end_conversation(agent_response, sim.turn, sim.max_turns)
       IN sim' = [s EXCEPT
                    !.turn = IF stop THEN @ ELSE @ + 1,
                    !.pc = IF stop \/ ~(sim.turn + 1 < sim.max_turns)
                           THEN "finish" ELSE "customer"]
    /\ UNCHANGED <<scriptVars, fbVars, evalVars, loopVars>>

\* the loop is over: finish() and return
SimFinish ==
    /\ sim.pc = "finish"
    /\ sim' = Return(sim)
    /\ UNCHANGED <<scriptVars, fbVars, evalVars, loopVars>>

\* an exception inside the try block: the handler adds a system message,
\* finishes and returns
SimError ==
    /\ sim.pc \in {"first", "customer", "agent"}
    /\ sim' = Return(Say(sim, "system", "Simulation error"))
    /\ UNCHANGED <<scriptVars, fbVars, evalVars, loopVars>>

NextSim ==
    \/ \E api_key \in BOOLEAN, max_turns \in 0..MaxTurns : SimStart(api_key, max_turns)
    \/ \E first_message \in FirstMessages : SimFirstMessage(first_message)
    \/ \E r \in SimReplies : SimCustomerTurn(r)
    \/ \E r \in SimReplies : SimAgentTurn(r)
    \/ SimFinish
    \/ SimError

SpecSim == InitSim /\ [][NextSim]_vars

SimReturned == sim.pc = "returned"
SimMessages == IF sim.conversations = <<>> THEN <<>> ELSE sim.conversations[1].messages

\* C25: a conversation returned by simulate_conversation has its end_time
\* set, exactly once, after its last message; messages are only appended and
\* none is appended once the conversation is finished
C25_FinishedOnceAfterLastMessage ==
    /\ [](SimReturned => sim.end_times = <<Len(SimMessages)>>)
    /\ [](~SimReturned => sim.end_times = <<>>)
    /\ [][/\ IsPrefix(SimMessages, SimMessages')
          /\ sim.end_times # <<>> => SimMessages' = SimMessages]_vars

\* returned on the error path, after messages of both sides
C25_Witness ==
    /\ SimReturned /\ sim.api_key
    /\ Len(SimMessages) >= 4
    /\ SimMessages[Len(SimMessages)].role = "system"
    /\ sim.end_times = <<Len(SimMessages)>>

\* the agent and customer messages of the simulated conversation
Dialogue ==
    SelectSeq(SimMessages, LAMBDA m : m.role \in {"agent", "customer"})

Alternates(messages) ==
    /\ messages # <<>> => messages[1].role = "agent"
    /\ \A i \in 1..(Len(messages) - 1) : messages[i].role # messages[i + 1].role

\* C30: in a conversation returned by simulate_conversation with a
\* generation capability, agent and customer messages alternate strictly,
\* starting with the agent, whatever the capability answers, and there are at
\* most 2 * max_turns of them
C30_TurnStructure ==
    (SimReturned /\ sim.api_key) =>
        /\ Alternates(Dialogue)
        /\ Len(Dialogue) <= 2 * sim.max_turns

\* the bound on the number of messages, for a positive max_turns
DialogueLengthBound ==
    (SimReturned /\ sim.api_key /\ sim.max_turns > 0) =>
        Len(Dialogue) <= 2 * sim.max_turns

----------------------------------------------------------------------------
(* Scripts along the improvement loop, checked under SpecLoop *)

CurrentScript == ScriptValue(World, session.current_script)

\* every id in every next_sections names a section of the script
EdgeClosed(val) ==
    \A id \in SectionIds(val) :
        Range(SectionOf(val, id).next_sections) \subseteq SectionIds(val)

\* every improve_script call of the loop so far ran without an API key
RuleBasedSoFar == \A i \in DOMAIN session.used : ~session.used[i].api_key

\* C26: starting from the default script, after any number of cycles of
\* rule-based synthesis and rule-based improve, every id in every section's
\* next_sections names a section of that script version
C26_EdgeClosurePreserved ==
    (InCli /\ RuleBasedSoFar) => EdgeClosed(CurrentScript)

\* two rule-based cycles added sections and wired them
C26_Witness ==
    /\ InCli /\ RuleBasedSoFar /\ Len(session.used) = 2
    /\ Cardinality(SectionIds(CurrentScript)) > Cardinality(SectionIds(DefaultScript)) + 2
    /\ \E id \in SectionIds(CurrentScript) \ SectionIds(DefaultScript) :
          id \in Range(SectionOf(CurrentScript, "hardship_options").next_sections)

----------------------------------------------------------------------------
(* Keys and ids of the sections mapping, checked under Spec *)

NoSection == [section_id |-> "", name |-> "", description |-> <<>>,
              content |-> <<>>, next_sections |-> <<>>]

\* DebtCollectionScript.get_starting_section: the first section, in the
\* order of the mapping, whose section_id is "introduction"; else the first
\* section; else None
get_starting_section(val) ==
    LET found == {i \in DOMAIN val.sections :
                     val.sections[i][2].section_id = "introduction"}
    IN IF found # {}
       THEN val.sections[CHOOSE i \in found : \A j \in found : i <= j][2]
       ELSE IF val.sections # <<>> THEN val.sections[1][2]
       ELSE NoSection

\* every section is stored under the key equal to its own section_id
KeysAreIds(val) ==
    \A i \in DOMAIN val.sections : val.sections[i][1] = val.sections[i][2].section_id

\* C27: if every section of the input script is stored under its own
\* section_id, so is every section of the script improve_script returns, and
\* get_starting_section returns the section stored under "introduction"
\* whenever that key exists
C27_KeyIdConsistency ==
    (Returned /\ KeysAreIds(Before)) =>
        /\ KeysAreIds(After)
        /\ "introduction" \in SectionIds(After) =>
              get_starting_section(After) = SectionOf(After, "introduction")

\* the model-assisted rewrite patched the introduction and added a section,
\* on top of a rule-based edit that had added one under a disambiguated id
C27_Witness ==
    /\ Returned /\ calls = 2 /\ last.path = "api" /\ KeysAreIds(Before)
    /\ "payment_plan_9" \in SectionIds(Before)
    /\ "empathy" \in SectionIds(After) \ SectionIds(Before)
    /\ get_starting_section(After).name = "Opening"

----------------------------------------------------------------------------
(* Persistence writes of improve_script, checked under Spec *)

\* C28: a call of improve_script that returns issues exactly one save, under
\* the key script_v<new version>.json and with the returned script as its
\* value, on the rule-based path, the model-assisted path and both fallback
\* paths; a call that raises the version-format error issues no save and no
\* generation request
C28_OneSavePerImprovement ==
    /\ Returned =>
          /\ last.path \in {"rule", "api", "api_fallback", "outer_fallback"}
          /\ Len(last.saves) = 1
          /\ last.saves[1].key = FileKey(After.version)
          /\ last.saves[1].obj = last.ret
          /\ last.saves[1].ok = last.env.storeOk
          /\ last.saves[1].ok =>
                /\ DictHas(store, last.saves[1].key)
                /\ DictGet(store, last.saves[1].key) = After
    /\ (Called /\ ParseFloat(Before.version) = -1) =>
          /\ last.exc = "ValueError"
          /\ last.saves = <<>> /\ last.gen = 0

\* the rewrite failed, its own fallback failed, and the outer fallback
\* returned a script and saved it
C28_Witness ==
    /\ Returned /\ last.path = "outer_fallback"
    /\ Len(last.saves) = 1 /\ last.saves[1].ok
    /\ last.saves[1].key = FileKey(After.version)

VersionErrorRaised == Called /\ last.exc = "ValueError" /\ last.env.api_key

----------------------------------------------------------------------------
(* The rule table of the synthesizer against the elif chain of the
   rule-based edit, checked under SpecFb *)

ImprovedSections == {"payment_discussion", "payment_plan", "confirmation", "introduction"}

SpecificTransform ==
    [payment_discussion |-> "reduce_repetition", payment_plan |-> "enhance_negotiation",
     confirmation |-> "strengthen_closing", introduction |-> "improve_compliance"]

\* the base script after _apply_section_improvements ran with directive d
AppliedToBase(d) ==
    LET w0 == load_base_script(EmptyWorld, V(1, 0))
        w1 == _apply_section_improvements(w0, w0.ret, d)
    IN [exc |-> w1.exc, script |-> ScriptValue(w1, w0.ret)]

Annotated(content) == "[Note: " \in Range(content)

\* C29: for every metrics value, each section improvement of the rule-based
\* directive for those metrics (payment_discussion, payment_plan,
\* confirmation, introduction) selects that section's own transform in the
\* rule-based edit, and the generic "[Note: ...]" annotation is appended to
\* none of the four sections
C29_ThresholdsAgree ==
    RuleBasedRun =>
        LET d == fbOut.directive
            applied == AppliedToBase(d)
        IN /\ d.metrics = fbIn.metrics
           /\ ImprovementKeys(d) \subseteq ImprovedSections
           /\ \A i \in DOMAIN d.section_improvements.items :
                 LET item == d.section_improvements.items[i]
                 IN /\ item[2].shape = "str"
                    /\ TransformOf(item[1], d.metrics) = SpecificTransform[item[1]]
           /\ applied.exc = NoExc
           /\ \A id \in ImprovedSections :
                 /\ id \in SectionIds(applied.script)
                 /\ ~Annotated(SectionOf(applied.script, id).content)
                 /\ id \notin ImprovementKeys(d) =>
                       SectionOf(applied.script, id) = SectionOf(DefaultScript, id)

\* all four thresholds fire, negotiation_effectiveness one grid step below
\* its threshold, and the edit changed the introduction
C29_Witness ==
    /\ RuleBasedRun
    /\ ImprovementKeys(fbOut.directive) = ImprovedSections
    /\ fbIn.metrics.negotiation_effectiveness = R(5, 10)
    /\ SectionOf(AppliedToBase(fbOut.directive).script, "introduction").description
          # SectionOf(DefaultScript, "introduction").description

====
